---- MODULE Spec2Model ----
(***************************************************************************)
(* Model of backend/app/utils/vector_utils.py (crl.help): the vector       *)
(* similarity primitives and find_top_k_similar.                           *)
(*                                                                         *)
(* Vectors are sequences of integers (Python numbers with integral         *)
(* values).  Sums of products of such values are exact in Python; the      *)
(* results of math.sqrt, of float * float and of number / float are IEEE   *)
(* 754 binary64 values, rounded to nearest, ties to even.  They are        *)
(* modelled bit for bit: a float is a record [s, m, e] of value            *)
(* (-1)^s * m * 2^e whose mantissa m is a natural number of exactly        *)
(* MantBits bits (or zero), held as a little-endian sequence of limbs in   *)
(* 0 .. Base-1.  The exponent range of binary64 is not modelled: the       *)
(* values reached from the bounded inputs are far from overflow and        *)
(* underflow.                                                              *)
(***************************************************************************)
EXTENDS Integers, Sequences, FiniteSets, TLC

VARIABLES
    query_vec, candidate_vecs, k, similarity_fn,   \* arguments of find_top_k_similar
    pc,          \* position in the call
    i,           \* index of the next candidate of the loop of line 183
    scores,      \* the list of line 182
    result,      \* the returned list
    error,       \* the message of the ValueError raised, "" when none
    prim, arg1, arg2,    \* a direct call of a primitive and its arguments
    prim_done,           \* whether the call has been made
    prim_ret             \* what it returned or raised

VARIABLES
    calls           \* calls of find_top_k_similar in progress together, each with its locals

VARIABLES
    rag,            \* a call of RAGService.answer_question and what it has done so far
    search,         \* the requests to the semantic-search endpoint that are served together
    openai          \* a call of OpenAIClient.create_embedding

VARIABLES
    ingest,         \* runs of DataProcessorService.process_and_store on one database
    batch,          \* a call of batch_summarize or batch_generate_embeddings
    embgen          \* crl_embeddings, a run of generate_embeddings.py on it and the coroutines of its CRLs

VARIABLES
    again_ret,      \* normalize_vector called on the result of normalize_vector
    magnitude_ret   \* vector_magnitude called on the result of normalize_vector

\* ------------------------------------------------------------------------
\* Natural numbers of arbitrary size (limbs, least significant first).
\* ------------------------------------------------------------------------
LimbBits == 15
Base == 2 ^ LimbBits
MantBits == 53

RECURSIVE BTrim(_)
BTrim(a) ==
    IF a = <<>> THEN <<>>
    ELSE IF a[Len(a)] = 0 THEN BTrim(SubSeq(a, 1, Len(a) - 1))
    ELSE a

RECURSIVE BFromNat(_)
BFromNat(n) ==
    IF n = 0 THEN <<>> ELSE <<n % Base>> \o BFromNat(n \div Base)

BRest(a) == IF a = <<>> THEN <<>> ELSE Tail(a)
BLow(a) == IF a = <<>> THEN 0 ELSE Head(a)

RECURSIVE BAddC(_, _, _)
BAddC(a, b, c) ==
    IF a = <<>> /\ b = <<>> THEN (IF c = 0 THEN <<>> ELSE <<c>>)
    ELSE LET s == BLow(a) + BLow(b) + c
         IN  <<s % Base>> \o BAddC(BRest(a), BRest(b), s \div Base)

BAdd(a, b) == BAddC(a, b, 0)

\* a - b for a >= b
RECURSIVE BSubB(_, _, _)
BSubB(a, b, c) ==
    IF a = <<>> THEN <<>>
    ELSE LET d == Head(a) - BLow(b) - c
         IN  <<d % Base>> \o BSubB(Tail(a), BRest(b), IF d < 0 THEN 1 ELSE 0)

BSub(a, b) == BTrim(BSubB(a, b, 0))

\* -1, 0, 1 as a < b, a = b, a > b (both trimmed)
RECURSIVE BCmpAt(_, _, _)
BCmpAt(a, b, n) ==
    IF n = 0 THEN 0
    ELSE IF a[n] < b[n] THEN -1
    ELSE IF a[n] > b[n] THEN 1
    ELSE BCmpAt(a, b, n - 1)

BCmp(a, b) ==
    IF Len(a) < Len(b) THEN -1
    ELSE IF Len(a) > Len(b) THEN 1
    ELSE BCmpAt(a, b, Len(a))

\* a * d + c for 0 <= d, c < Base
RECURSIVE BMulSmall(_, _, _)
BMulSmall(a, d, c) ==
    IF a = <<>> THEN (IF c = 0 THEN <<>> ELSE <<c>>)
    ELSE LET p == Head(a) * d + c
         IN  <<p % Base>> \o BMulSmall(Tail(a), d, p \div Base)

RECURSIVE BMul(_, _)
BMul(a, b) ==
    IF a = <<>> \/ b = <<>> THEN <<>>
    ELSE BTrim(BAdd(BMulSmall(a, Head(b), 0), <<0>> \o BMul(a, Tail(b))))

\* <<a \div d, a % d>> for 0 < d <= Base
RECURSIVE BDivSmall(_, _)
BDivSmall(a, d) ==
    IF a = <<>> THEN << <<>>, 0 >>
    ELSE LET hi  == BDivSmall(Tail(a), d)
             cur == hi[2] * Base + Head(a)
         IN  << <<cur \div d>> \o hi[1], cur % d >>

BZeros(n) == [j \in 1..n |-> 0]

\* a * 2^n
BShl(a, n) ==
    IF a = <<>> THEN <<>>
    ELSE BZeros(n \div LimbBits) \o BMulSmall(a, 2 ^ (n % LimbBits), 0)

\* a \div 2^n
BShr(a, n) ==
    IF n \div LimbBits >= Len(a) THEN <<>>
    ELSE BTrim(BDivSmall(SubSeq(a, n \div LimbBits + 1, Len(a)),
                         2 ^ (n % LimbBits))[1])

RECURSIVE BitLenSmall(_)
BitLenSmall(n) == IF n = 0 THEN 0 ELSE 1 + BitLenSmall(n \div 2)

BBitLen(a) ==
    IF a = <<>> THEN 0
    ELSE LimbBits * (Len(a) - 1) + BitLenSmall(a[Len(a)])

BIsOdd(a) == a # <<>> /\ a[1] % 2 = 1

\* Largest q in 0 .. Base-1 with q * b <= cur, for cur < b * Base and b with
\* its top limb >= Base / 2: the estimate from the two top limbs is at most
\* two too large.
RECURSIVE BFitDigit(_, _, _)
BFitDigit(cur, b, q) ==
    IF BCmp(BMulSmall(b, q, 0), cur) <= 0 THEN q
    ELSE BFitDigit(cur, b, q - 1)

BQuotDigit(cur, b) ==
    LET n   == Len(b)
        top == (IF Len(cur) > n THEN cur[n + 1] * Base ELSE 0)
               + (IF Len(cur) >= n THEN cur[n] ELSE 0)
        est == top \div b[n]
    IN  IF BCmp(cur, b) < 0 THEN 0
        ELSE BFitDigit(cur, b, IF est > Base - 1 THEN Base - 1 ELSE est)

\* [q, r] with a = q * b + r, 0 <= r < b, for b with top limb >= Base / 2
RECURSIVE BDivModN(_, _)
BDivModN(a, b) ==
    IF a = <<>> THEN [q |-> <<>>, r |-> <<>>]
    ELSE LET hi  == BDivModN(Tail(a), b)
             cur == BTrim(<<Head(a)>> \o hi.r)
             d   == BQuotDigit(cur, b)
         IN  [q |-> <<d>> \o hi.q,
              r |-> BSub(cur, BTrim(BMulSmall(b, d, 0)))]

\* [q, r] with a = q * b + r, 0 <= r < b, for any b > 0
BDivMod(a, b) ==
    LET sh == LimbBits - BitLenSmall(b[Len(b)])
        dm == BDivModN(BShl(a, sh), BShl(b, sh))
    IN  [q |-> BTrim(dm.q), r |-> BShr(dm.r, sh)]

\* floor(sqrt(n)): Newton's iteration downwards from x >= sqrt(n)
RECURSIVE BSqrtFrom(_, _)
BSqrtFrom(n, x) ==
    LET y == BShr(BAdd(x, BDivMod(n, x).q), 1)
    IN  IF BCmp(y, x) >= 0 THEN x ELSE BSqrtFrom(n, y)

BSqrt(n) ==
    IF n = <<>> THEN <<>>
    ELSE BSqrtFrom(n, BShl(<<1>>, (BBitLen(n) + 1) \div 2))

\* ------------------------------------------------------------------------
\* binary64 values and the operations of Python's float on them.
\* ------------------------------------------------------------------------
FZero == [s |-> 0, m |-> <<>>, e |-> 0]

\* (-1)^s * m * 2^e, plus something in (0, 2^e) when sticky, rounded to
\* MantBits bits: to nearest, ties to even
FRound(s, m, e, sticky) ==
    LET len == BBitLen(m)
    IN  IF m = <<>> THEN FZero
        ELSE IF len <= MantBits
        THEN [s |-> s, m |-> BShl(m, MantBits - len), e |-> e - (MantBits - len)]
        ELSE LET d    == len - MantBits
                 q    == BShr(m, d)
                 rem  == BSub(m, BShl(q, d))
                 half == BShl(<<1>>, d - 1)
                 c    == BCmp(rem, half)
                 up   == c > 0 \/ (c = 0 /\ (sticky \/ BIsOdd(q)))
                 q1   == IF up THEN BAdd(q, <<1>>) ELSE q
             IN  IF BBitLen(q1) > MantBits
                 THEN [s |-> s, m |-> BShr(q1, 1), e |-> e + d + 1]
                 ELSE [s |-> s, m |-> q1, e |-> e + d]

\* float(n) for an int n
FFromInt(n) ==
    IF n < 0 THEN FRound(1, BFromNat(-n), 0, FALSE)
    ELSE FRound(0, BFromNat(n), 0, FALSE)

\* x * y
FMul(x, y) ==
    IF x.m = <<>> \/ y.m = <<>> THEN FZero
    ELSE FRound((x.s + y.s) % 2, BMul(x.m, y.m), x.e + y.e, FALSE)

\* x / y for y # 0
FDiv(x, y) ==
    IF x.m = <<>> THEN FZero
    ELSE LET dm == BDivMod(BShl(x.m, MantBits + 3), y.m)
         IN  FRound((x.s + y.s) % 2, dm.q, x.e - y.e - (MantBits + 3),
                    dm.r # <<>>)

\* math.sqrt(x) for x >= 0
FSqrt(x) ==
    IF x.m = <<>> THEN FZero
    ELSE LET sh == MantBits + 3 + (IF (x.e - (MantBits + 3)) % 2 = 0 THEN 0 ELSE 1)
             n  == BShl(x.m, sh)
             r  == BSqrt(n)
         IN  FRound(0, r, (x.e - sh) \div 2, BMul(r, r) # n)

\* -1, 0, 1 as x < y, x = y, x > y
FMagCmp(x, y) ==
    IF x.m = <<>> /\ y.m = <<>> THEN 0
    ELSE IF x.m = <<>> THEN -1
    ELSE IF y.m = <<>> THEN 1
    ELSE IF x.e < y.e THEN -1
    ELSE IF x.e > y.e THEN 1
    ELSE BCmp(x.m, y.m)

FSign(x) == IF x.m = <<>> THEN 0 ELSE IF x.s = 1 THEN -1 ELSE 1

FCmp(x, y) ==
    IF FSign(x) # FSign(y) THEN (IF FSign(x) < FSign(y) THEN -1 ELSE 1)
    ELSE IF FSign(x) >= 0 THEN FMagCmp(x, y)
    ELSE FMagCmp(y, x)

FOne == FFromInt(1)

FNeg(x) == IF x = FZero THEN FZero ELSE [x EXCEPT !.s = 1 - x.s]

FAbs(x) == IF x = FZero THEN FZero ELSE [x EXCEPT !.s = 0]

\* x + y. Operands more than MantBits + 7 binary places apart leave the
\* larger one unchanged; otherwise the exact sum is rounded.
FAdd(x, y) ==
    IF x.m = <<>> THEN y
    ELSE IF y.m = <<>> THEN x
    ELSE LET hi == IF x.e >= y.e THEN x ELSE y
             lo == IF x.e >= y.e THEN y ELSE x
             d  == hi.e - lo.e
             mh == BShl(hi.m, d)
             c  == BCmp(mh, lo.m)
         IN  IF d > MantBits + 7 THEN hi
             ELSE IF hi.s = lo.s THEN FRound(hi.s, BAdd(mh, lo.m), lo.e, FALSE)
             ELSE IF c = 0 THEN FZero
             ELSE IF c > 0 THEN FRound(hi.s, BSub(mh, lo.m), lo.e, FALSE)
             ELSE FRound(lo.s, BSub(lo.m, mh), lo.e, FALSE)

\* ------------------------------------------------------------------------
\* Python values: what a call returns or raises.
\* ------------------------------------------------------------------------
Returned(v) == [raised |-> "", value |-> v]
Raised(msg) == [raised |-> msg, value |-> FZero]

\* math.sqrt on an int; the table only saves recomputing it
SqrtTable == [n \in 0..40 |-> FSqrt(FFromInt(n))]
math_sqrt(n) == SqrtTable[n]

\* sum(a * b for a, b in zip(vec1, vec2)), for len(vec1) = len(vec2)
RECURSIVE sum_of_products(_, _)
sum_of_products(vec1, vec2) ==
    IF vec1 = <<>> THEN 0
    ELSE Head(vec1) * Head(vec2) + sum_of_products(Tail(vec1), Tail(vec2))

\* sum((a - b) ** 2 for a, b in zip(vec1, vec2)), for len(vec1) = len(vec2)
RECURSIVE sum_of_squared_diffs(_, _)
sum_of_squared_diffs(vec1, vec2) ==
    IF vec1 = <<>> THEN 0
    ELSE (Head(vec1) - Head(vec2)) * (Head(vec1) - Head(vec2))
         + sum_of_squared_diffs(Tail(vec1), Tail(vec2))

ErrEmptyVectors == "Vectors cannot be empty"
ErrDimension == "Vectors must have same dimension"
ErrEmptyVector == "Vector cannot be empty"
ErrZeroVector == "Cannot normalize zero vector"
ErrEmptyQuery == "Query vector cannot be empty"
ErrEmptyCandidates == "Candidate vectors cannot be empty"
ErrK == "k must be at least 1"
ErrUnknownFn == "Unknown similarity function"
ErrNoValid == "No valid candidates found"

\* a zero magnitude treated as an error, as normalize_vector does
cosine_similarity_zero_raises(vec1, vec2) ==
    IF vec1 = <<>> \/ vec2 = <<>> THEN Raised(ErrEmptyVectors)
    ELSE IF Len(vec1) # Len(vec2) THEN Raised(ErrDimension)
    ELSE LET dot        == sum_of_products(vec1, vec2)
             magnitude1 == math_sqrt(sum_of_products(vec1, vec1))
             magnitude2 == math_sqrt(sum_of_products(vec2, vec2))
         IN  IF magnitude1 = FZero \/ magnitude2 = FZero THEN Raised(ErrZeroVector)
             ELSE Returned(FDiv(FFromInt(dot), FMul(magnitude1, magnitude2)))

\* the dot product divided by the first magnitude only
cosine_similarity_one_magnitude(vec1, vec2) ==
    IF vec1 = <<>> \/ vec2 = <<>> THEN Raised(ErrEmptyVectors)
    ELSE IF Len(vec1) # Len(vec2) THEN Raised(ErrDimension)
    ELSE LET dot        == sum_of_products(vec1, vec2)
             magnitude1 == math_sqrt(sum_of_products(vec1, vec1))
             magnitude2 == math_sqrt(sum_of_products(vec2, vec2))
         IN  IF magnitude1 = FZero \/ magnitude2 = FZero THEN Returned(FZero)
             ELSE Returned(FDiv(FFromInt(dot), magnitude1))

cosine_similarity(vec1, vec2) ==
    IF vec1 = <<>> \/ vec2 = <<>> THEN Raised(ErrEmptyVectors)
    ELSE IF Len(vec1) # Len(vec2) THEN Raised(ErrDimension)
    ELSE LET dot        == sum_of_products(vec1, vec2)
             magnitude1 == math_sqrt(sum_of_products(vec1, vec1))
             magnitude2 == math_sqrt(sum_of_products(vec2, vec2))
         IN  IF magnitude1 = FZero \/ magnitude2 = FZero THEN Returned(FZero)
             ELSE Returned(FDiv(FFromInt(dot), FMul(magnitude1, magnitude2)))

\* the dimensions compared before the emptiness check
euclidean_distance_dimension_first(vec1, vec2) ==
    IF Len(vec1) # Len(vec2) THEN Raised(ErrDimension)
    ELSE IF vec1 = <<>> \/ vec2 = <<>> THEN Raised(ErrEmptyVectors)
    ELSE Returned(math_sqrt(sum_of_squared_diffs(vec1, vec2)))

euclidean_distance(vec1, vec2) ==
    IF vec1 = <<>> \/ vec2 = <<>> THEN Raised(ErrEmptyVectors)
    ELSE IF Len(vec1) # Len(vec2) THEN Raised(ErrDimension)
    ELSE Returned(math_sqrt(sum_of_squared_diffs(vec1, vec2)))

\* only a longer first vector rejected; zip stops at the shorter one
dot_product_one_sided_check(vec1, vec2) ==
    IF vec1 = <<>> \/ vec2 = <<>> THEN Raised(ErrEmptyVectors)
    ELSE IF Len(vec1) > Len(vec2) THEN Raised(ErrDimension)
    ELSE Returned(FFromInt(sum_of_products(vec1, vec2)))

\* The sum is an exact integer; it is held as the float of the same value.
dot_product(vec1, vec2) ==
    IF vec1 = <<>> \/ vec2 = <<>> THEN Raised(ErrEmptyVectors)
    ELSE IF Len(vec1) # Len(vec2) THEN Raised(ErrDimension)
    ELSE Returned(FFromInt(sum_of_products(vec1, vec2)))

\* a zero vector returned unchanged
normalize_vector_zero_default(vec) ==
    IF vec = <<>> THEN [raised |-> ErrEmptyVector, value |-> <<>>]
    ELSE LET magnitude == math_sqrt(sum_of_products(vec, vec))
         IN  [raised |-> "",
              value  |-> [j \in 1..Len(vec) |->
                             IF magnitude = FZero THEN FZero
                             ELSE FDiv(FFromInt(vec[j]), magnitude)]]

\* divided by the sum of squares, the square root forgotten
normalize_vector_by_square(vec) ==
    IF vec = <<>> THEN [raised |-> ErrEmptyVector, value |-> <<>>]
    ELSE LET magnitude == FFromInt(sum_of_products(vec, vec))
         IN  IF magnitude = FZero
             THEN [raised |-> ErrZeroVector, value |-> <<>>]
             ELSE [raised |-> "",
                   value  |-> [j \in 1..Len(vec) |->
                                  FDiv(FFromInt(vec[j]), magnitude)]]

normalize_vector(vec) ==
    IF vec = <<>> THEN [raised |-> ErrEmptyVector, value |-> <<>>]
    ELSE LET magnitude == math_sqrt(sum_of_products(vec, vec))
         IN  IF magnitude = FZero
             THEN [raised |-> ErrZeroVector, value |-> <<>>]
             ELSE [raised |-> "",
                   value  |-> [j \in 1..Len(vec) |->
                                  FDiv(FFromInt(vec[j]), magnitude)]]

\* sum(x * x for x in vec) for a vector of floats, added left to right
RECURSIVE float_sum_of_squares(_, _)
float_sum_of_squares(acc, fvec) ==
    IF fvec = <<>> THEN acc
    ELSE float_sum_of_squares(FAdd(acc, FMul(Head(fvec), Head(fvec))), Tail(fvec))

\* lines 199-215, for a vector of floats
vector_magnitude(fvec) ==
    IF fvec = <<>> THEN Raised(ErrEmptyVector)
    ELSE Returned(FSqrt(float_sum_of_squares(FZero, fvec)))

\* normalize_vector for a vector of floats, as a result of it is
normalize_vector_floats(fvec) ==
    IF fvec = <<>> THEN [raised |-> ErrEmptyVector, value |-> <<>>]
    ELSE LET magnitude == FSqrt(float_sum_of_squares(FZero, fvec))
         IN  IF magnitude = FZero
             THEN [raised |-> ErrZeroVector, value |-> <<>>]
             ELSE [raised |-> "",
                   value  |-> [j \in 1..Len(fvec) |-> FDiv(fvec[j], magnitude)]]

\* every double is a multiple of 2^MinExp, the least positive one
MinExp == -1074

\* x ** 2 for a float x is pow(x, 2.0) of the C library, which need not be
\* the double nearest the exact square: it is the exact square where that is
\* a double (a multiple of 2^MinExp of at most MantBits bits), and otherwise
\* one of the two doubles on either side of it, whichever the library gives.
\* FSquareDown is the lower of them and FSquareUp the upper; below 2^MinExp
\* the lower is 0.0. Squares of 2^1024 and more, where Python raises
\* OverflowError, are beyond the values of the model.
FSquareDown(x) ==
    IF x.m = <<>> THEN FZero
    ELSE LET m == BMul(x.m, x.m)
             e == x.e + x.e
             g == IF e + BBitLen(m) - MantBits >= MinExp
                  THEN e + BBitLen(m) - MantBits ELSE MinExp
         IN  IF g <= e THEN FRound(0, m, e, FALSE)
             ELSE FRound(0, BShr(m, g - e), g, FALSE)

FSquareUp(x) ==
    IF x.m = <<>> THEN FZero
    ELSE LET m == BMul(x.m, x.m)
             e == x.e + x.e
             g == IF e + BBitLen(m) - MantBits >= MinExp
                  THEN e + BBitLen(m) - MantBits ELSE MinExp
         IN  IF g <= e THEN FRound(0, m, e, FALSE)
             ELSE LET q == BShr(m, g - e)
                  IN  IF BShl(q, g - e) = m THEN FRound(0, q, g, FALSE)
                      ELSE FRound(0, BAdd(q, <<1>>), g, FALSE)

\* the values x ** 2 can have
pow_squares(x) == {FSquareDown(x), FSquareUp(x)}

\* the squares a C library gives the floats of xs: one of pow_squares for
\* each, the same for x and -x
PowTables(xs) ==
    LET mags == {FAbs(x) : x \in xs}
    IN  {[x \in mags |-> IF x \in ups THEN FSquareUp(x) ELSE FSquareDown(x)] :
            ups \in SUBSET {x \in mags : FSquareUp(x) # FSquareDown(x)}}

\* the values of a - b for a, b in zip(fvec1, fvec2), for vectors of one length
differences(fvec1, fvec2) ==
    {FAdd(fvec1[j], FNeg(fvec2[j])) : j \in 1..Len(fvec1)}

\* sum(a * b for a, b in zip(fvec1, fvec2)) for vectors of floats of one
\* length, added left to right. Products below 2^-1022 or of 2^1024 and
\* more are beyond the values of the model.
RECURSIVE float_sum_of_products(_, _, _)
float_sum_of_products(acc, fvec1, fvec2) ==
    IF fvec1 = <<>> THEN acc
    ELSE float_sum_of_products(FAdd(acc, FMul(Head(fvec1), Head(fvec2))),
                               Tail(fvec1), Tail(fvec2))

\* sum((a - b) ** 2 for a, b in zip(fvec1, fvec2)) for vectors of floats of
\* one length, added left to right, with the squares of the library pow
RECURSIVE float_sum_of_squared_diffs(_, _, _, _)
float_sum_of_squared_diffs(pow, acc, fvec1, fvec2) ==
    IF fvec1 = <<>> THEN acc
    ELSE float_sum_of_squared_diffs(
             pow,
             FAdd(acc, pow[FAbs(FAdd(Head(fvec1), FNeg(Head(fvec2))))]),
             Tail(fvec1), Tail(fvec2))

\* the floats of a vector of ints
ToFloats(vec) == [j \in 1..Len(vec) |-> FFromInt(vec[j])]

\* lines 12-47, for vectors of floats
cosine_similarity_floats(fvec1, fvec2) ==
    IF fvec1 = <<>> \/ fvec2 = <<>> THEN Raised(ErrEmptyVectors)
    ELSE IF Len(fvec1) # Len(fvec2) THEN Raised(ErrDimension)
    ELSE LET dot        == float_sum_of_products(FZero, fvec1, fvec2)
             magnitude1 == FSqrt(float_sum_of_squares(FZero, fvec1))
             magnitude2 == FSqrt(float_sum_of_squares(FZero, fvec2))
         IN  IF magnitude1 = FZero \/ magnitude2 = FZero THEN Returned(FZero)
             ELSE Returned(FDiv(dot, FMul(magnitude1, magnitude2)))

\* the last component left out of the sum
euclidean_distance_floats_skip_last(pow, fvec1, fvec2) ==
    IF fvec1 = <<>> \/ fvec2 = <<>> THEN Raised(ErrEmptyVectors)
    ELSE IF Len(fvec1) # Len(fvec2) THEN Raised(ErrDimension)
    ELSE Returned(FSqrt(float_sum_of_squared_diffs(
                            pow, FZero, SubSeq(fvec1, 1, Len(fvec1) - 1),
                            SubSeq(fvec2, 1, Len(fvec2) - 1))))

\* lines 50-76, for vectors of floats, with the squares of the library pow
euclidean_distance_floats(pow, fvec1, fvec2) ==
    IF fvec1 = <<>> \/ fvec2 = <<>> THEN Raised(ErrEmptyVectors)
    ELSE IF Len(fvec1) # Len(fvec2) THEN Raised(ErrDimension)
    ELSE Returned(FSqrt(float_sum_of_squared_diffs(pow, FZero, fvec1, fvec2)))

\* what euclidean_distance can return or raise on vectors of floats, over
\* the squares a library can give
euclidean_distance_outcomes(fvec1, fvec2) ==
    {euclidean_distance_floats(pow, fvec1, fvec2) :
        pow \in PowTables(IF Len(fvec1) = Len(fvec2)
                          THEN differences(fvec1, fvec2) ELSE {})}

\* sum(a + b ...) written for sum(a * b ...)
dot_product_floats_of_sums(fvec1, fvec2) ==
    IF fvec1 = <<>> \/ fvec2 = <<>> THEN Raised(ErrEmptyVectors)
    ELSE IF Len(fvec1) # Len(fvec2) THEN Raised(ErrDimension)
    ELSE Returned(float_sum_of_products(
                      float_sum_of_products(FZero, fvec1, [j \in 1..Len(fvec1) |-> FOne]),
                      fvec2, [j \in 1..Len(fvec2) |-> FOne]))

\* lines 79-104, for vectors of floats
dot_product_floats(fvec1, fvec2) ==
    IF fvec1 = <<>> \/ fvec2 = <<>> THEN Raised(ErrEmptyVectors)
    ELSE IF Len(fvec1) # Len(fvec2) THEN Raised(ErrDimension)
    ELSE Returned(float_sum_of_products(FZero, fvec1, fvec2))

ErrEmptyList == "Vectors list cannot be empty"
ErrAllDimension == "All vectors must have same dimension"

\* mean[c] after the accumulation loop: the sum of the c-th elements
RECURSIVE column_sum(_, _)
column_sum(vectors, c) ==
    IF vectors = <<>> THEN 0
    ELSE Head(vectors)[c] + column_sum(Tail(vectors), c)

\* the division by n forgotten
mean_vector_not_divided(vectors) ==
    IF vectors = <<>> THEN [raised |-> ErrEmptyList, value |-> <<>>]
    ELSE LET dim == Len(vectors[1])
         IN  IF \E j \in 1..Len(vectors) : Len(vectors[j]) # dim
             THEN [raised |-> ErrAllDimension, value |-> <<>>]
             ELSE [raised |-> "",
                   value  |-> [c \in 1..dim |-> FFromInt(column_sum(vectors, c))]]

\* lines 218-256. The elements are integers, so the running sums are exact
\* and the only rounding is that of mean[i] /= n.
mean_vector(vectors) ==
    IF vectors = <<>> THEN [raised |-> ErrEmptyList, value |-> <<>>]
    ELSE LET dim == Len(vectors[1])
         IN  IF \E j \in 1..Len(vectors) : Len(vectors[j]) # dim
             THEN [raised |-> ErrAllDimension, value |-> <<>>]
             ELSE [raised |-> "",
                   value  |-> [c \in 1..dim |->
                                  FDiv(FFromInt(column_sum(vectors, c)),
                                       FFromInt(Len(vectors)))]]

\* ------------------------------------------------------------------------
\* find_top_k_similar
\* ------------------------------------------------------------------------
\* k checked first
validate_inputs_k_first(query, candidates, top_k, metric) ==
    IF top_k < 1 THEN ErrK
    ELSE IF query = <<>> THEN ErrEmptyQuery
    ELSE IF candidates = <<>> THEN ErrEmptyCandidates
    ELSE IF metric \notin {"cosine", "dot", "euclidean"} THEN ErrUnknownFn
    ELSE ""

\* lines 156-179: the checks, in order; "" when all pass
validate_inputs(query, candidates, top_k, metric) ==
    IF query = <<>> THEN ErrEmptyQuery
    ELSE IF candidates = <<>> THEN ErrEmptyCandidates
    ELSE IF top_k < 1 THEN ErrK
    ELSE IF metric \notin {"cosine", "dot", "euclidean"} THEN ErrUnknownFn
    ELSE ""

\* lines 166-174: the function a metric name selects
score_fn(metric, vec1, vec2) ==
    IF metric = "cosine" THEN cosine_similarity(vec1, vec2)
    ELSE IF metric = "dot" THEN dot_product(vec1, vec2)
    ELSE euclidean_distance(vec1, vec2)

\* every metric sorted as a similarity, best first
reverse_of_always_descending(metric) == TRUE

\* lines 168, 171, 174
reverse_of(metric) == metric \in {"cosine", "dot"}

\* an unstable sort: x goes before the first entry it is at least as good as
insert_sorted_before_ties(sorted, x, reverse) ==
    LET ahead == {j \in 1..Len(sorted) :
                     \A n \in 1..j : IF reverse THEN FCmp(x[2], sorted[n][2]) < 0
                                                 ELSE FCmp(x[2], sorted[n][2]) > 0}
    IN  SubSeq(sorted, 1, Cardinality(ahead)) \o <<x>>
            \o SubSeq(sorted, Cardinality(ahead) + 1, Len(sorted))

\* list.sort(key=lambda x: x[1], reverse=reverse) is stable in both
\* directions: x goes before the first entry it is strictly better than.
RECURSIVE insert_sorted(_, _, _)
insert_sorted(sorted, x, reverse) ==
    IF sorted = <<>> THEN <<x>>
    ELSE LET c == FCmp(x[2], Head(sorted)[2])
         IN  IF (reverse /\ c > 0) \/ (~reverse /\ c < 0)
             THEN <<x>> \o sorted
             ELSE <<Head(sorted)>> \o insert_sorted(Tail(sorted), x, reverse)

\* the sort left out
sort_scores_skipped(pairs, reverse) == pairs

RECURSIVE sort_scores(_, _)
sort_scores(pairs, reverse) ==
    IF pairs = <<>> THEN <<>>
    ELSE insert_sorted(sort_scores(SubSeq(pairs, 1, Len(pairs) - 1), reverse),
                       pairs[Len(pairs)], reverse)

\* the slice left out
first_k_all(pairs, top_k) == pairs

\* pairs[:top_k] for top_k >= 1
first_k(pairs, top_k) == SubSeq(pairs, 1, IF top_k < Len(pairs) THEN top_k ELSE Len(pairs))

ListRaised(msg) == [raised |-> msg, value |-> <<>>]

\* a candidate that cannot be scored is given the score 0.0
append_score_defaulting(pairs, metric, query, cand) ==
    LET score == score_fn(metric, query, cand[2])
    IN  Append(pairs, <<cand[1], IF score.raised = "" THEN score.value ELSE FZero>>)

\* lines 184-189: the body of the loop, for the candidate cand = (cand_id, cand_vec)
append_score(pairs, metric, query, cand) ==
    LET score == score_fn(metric, query, cand[2])
    IN  IF score.raised = "" THEN Append(pairs, <<cand[1], score.value>>)
        ELSE pairs

\* lines 182-189: the loop over all candidates
RECURSIVE score_candidates(_, _, _)
score_candidates(metric, query, candidates) ==
    IF candidates = <<>> THEN <<>>
    ELSE append_score(
             score_candidates(metric, query,
                              SubSeq(candidates, 1, Len(candidates) - 1)),
             metric, query, candidates[Len(candidates)])

\* the check of line 191 left out
finish_call_unchecked(pairs, top_k, metric) ==
    Returned(first_k(sort_scores(pairs, reverse_of(metric)), top_k))

\* lines 191-196
finish_call(pairs, top_k, metric) ==
    IF pairs = <<>> THEN ListRaised(ErrNoValid)
    ELSE Returned(first_k(sort_scores(pairs, reverse_of(metric)), top_k))

\* the whole call; pairs is the list the loop has filled, computed once
find_top_k_similar(query, candidates, top_k, metric) ==
    IF validate_inputs(query, candidates, top_k, metric) # ""
    THEN ListRaised(validate_inputs(query, candidates, top_k, metric))
    ELSE CHOOSE ret \in {finish_call(pairs, top_k, metric) :
                          pairs \in {score_candidates(metric, query, candidates)}} : TRUE

\* lines 166-174, the vectors being vectors of floats; pow holds the squares
\* of the library for the differences euclidean_distance takes
score_fn_floats(pow, metric, fvec1, fvec2) ==
    IF metric = "cosine" THEN cosine_similarity_floats(fvec1, fvec2)
    ELSE IF metric = "dot" THEN dot_product_floats(fvec1, fvec2)
    ELSE euclidean_distance_floats(pow, fvec1, fvec2)

\* lines 184-189, the vectors being vectors of floats
append_score_floats(pow, pairs, metric, query, cand) ==
    LET score == score_fn_floats(pow, metric, query, cand[2])
    IN  IF score.raised = "" THEN Append(pairs, <<cand[1], score.value>>)
        ELSE pairs

\* lines 182-189, the vectors being vectors of floats
RECURSIVE score_candidates_floats(_, _, _, _)
score_candidates_floats(pow, metric, query, candidates) ==
    IF candidates = <<>> THEN <<>>
    ELSE append_score_floats(
             pow,
             score_candidates_floats(pow, metric, query,
                                     SubSeq(candidates, 1, Len(candidates) - 1)),
             metric, query, candidates[Len(candidates)])

\* the differences a call squares: those of the query and the candidates
\* of its dimension under the metric euclidean, none under the others
call_differences(metric, query, candidates) ==
    IF metric # "euclidean" THEN {}
    ELSE UNION {differences(query, candidates[j][2]) :
                   j \in {n \in 1..Len(candidates) :
                              Len(candidates[n][2]) = Len(query)}}

\* what the whole call can return or raise, the vectors being vectors of
\* floats, over the squares a library can give: one outcome under the
\* metrics cosine and dot
find_top_k_similar_floats(query, candidates, top_k, metric) ==
    IF validate_inputs(query, candidates, top_k, metric) # ""
    THEN {ListRaised(validate_inputs(query, candidates, top_k, metric))}
    ELSE {finish_call(pairs, top_k, metric) :
             pairs \in {score_candidates_floats(pow, metric, query, candidates) :
                           pow \in PowTables(call_differences(metric, query, candidates))}}

\* ------------------------------------------------------------------------
\* Inputs
\* ------------------------------------------------------------------------
MaxCands == 3
MaxK == 3
MaxDim == 3

QueryPool == {<<>>, <<0, 0>>, <<1, 1>>}
CandPool == {<<>>, <<1>>, <<0, 0>>, <<1, 1>>, <<-2, 1>>}
Metrics == {"cosine", "dot", "euclidean", "manhattan"}
CandIds == <<"a", "b", "c", "d", "e", "f">>

CandLists == UNION {[1..n -> CandPool] : n \in 0..MaxCands}
with_ids(vecs) == [j \in 1..Len(vecs) |-> <<CandIds[j], vecs[j]>>]

Components == {-1, 0, 1}
Vectors == UNION {[1..n -> Components] : n \in 0..MaxDim}
Primitives == {"cosine_similarity", "euclidean_distance", "dot_product", "normalize_vector"}

\* inputs of mean_vector: lists of up to MaxVecs vectors of the pool
MaxVecs == 7
MeanPool == {<<4>>, <<5>>, <<1, -1>>}
VectorLists == UNION {[1..n -> MeanPool] : n \in 0..MaxVecs}

topk_vars == <<query_vec, candidate_vecs, k, similarity_fn, pc, i, scores, result, error>>
prim_vars == <<prim, arg1, arg2, prim_done, prim_ret, again_ret, magnitude_ret>>
job_vars == <<ingest, batch, embgen>>
svc_vars == <<rag, search, openai, job_vars>>
vars == <<topk_vars, prim_vars, calls, svc_vars>>

JobIdle == ingest = <<>> /\ batch = <<>> /\ embgen = <<>>

SvcIdle == rag = <<>> /\ search = <<>> /\ openai = <<>> /\ JobIdle

NoCall == [raised |-> "", value |-> <<>>]

PrimIdle ==
    /\ prim = "none" /\ arg1 = <<>> /\ arg2 = <<>> /\ prim_done = FALSE /\ prim_ret = NoCall
    /\ again_ret = NoCall /\ magnitude_ret = NoCall

TopKIdle ==
    /\ query_vec = <<>> /\ candidate_vecs = <<>> /\ k = 0 /\ similarity_fn = "cosine"
    /\ pc = "idle" /\ i = 1 /\ scores = <<>> /\ result = <<>> /\ error = ""

Init ==
    /\ query_vec \in QueryPool
    /\ candidate_vecs \in {with_ids(c) : c \in CandLists}
    /\ k \in 0..MaxK
    /\ similarity_fn \in Metrics
    /\ pc = "validate" /\ i = 1 /\ scores = <<>> /\ result = <<>> /\ error = ""
    /\ PrimIdle
    /\ calls = <<>>
    /\ SvcIdle

\* lines 156-179
Validate ==
    /\ pc = "validate"
    /\ error' = validate_inputs(query_vec, candidate_vecs, k, similarity_fn)
    /\ pc' = IF error' = "" THEN "score" ELSE "raised"
    /\ UNCHANGED <<query_vec, candidate_vecs, k, similarity_fn, i, scores, result, prim_vars, calls, svc_vars>>

\* lines 183-189: one iteration of the loop
ScoreCandidate ==
    /\ pc = "score"
    /\ i <= Len(candidate_vecs)
    /\ scores' = append_score(scores, similarity_fn, query_vec, candidate_vecs[i])
    /\ i' = i + 1
    /\ UNCHANGED <<query_vec, candidate_vecs, k, similarity_fn, pc, result, error, prim_vars, calls, svc_vars>>

\* lines 191-196, once the loop has ended
Finish ==
    /\ pc = "score"
    /\ i > Len(candidate_vecs)
    /\ LET ret == finish_call(scores, k, similarity_fn)
       IN  /\ error' = ret.raised
           /\ result' = ret.value
           /\ pc' = IF ret.raised = "" THEN "returned" ELSE "raised"
           /\ scores' = IF ret.raised = ""
                        THEN sort_scores(scores, reverse_of(similarity_fn))
                        ELSE scores
    /\ UNCHANGED <<query_vec, candidate_vecs, k, similarity_fn, i, prim_vars, calls, svc_vars>>

Next == Validate \/ ScoreCandidate \/ Finish

Spec == Init /\ [][Next]_vars

\* ------------------------------------------------------------------------
\* Direct calls of the primitives
\* ------------------------------------------------------------------------
InitPrimitives ==
    /\ TopKIdle
    /\ \/ /\ prim \in Primitives
          /\ arg1 \in Vectors
          /\ arg2 \in IF prim = "normalize_vector" THEN {<<>>} ELSE Vectors
       \/ /\ prim = "mean_vector"
          /\ arg1 \in VectorLists
          /\ arg2 = <<>>
    /\ prim_done = FALSE
    /\ prim_ret = NoCall
    /\ again_ret = NoCall
    /\ magnitude_ret = NoCall
    /\ calls = <<>>
    /\ SvcIdle

CallCosineSimilarity ==
    /\ prim = "cosine_similarity" /\ ~prim_done
    /\ prim_done' = TRUE
    /\ prim_ret' = cosine_similarity(arg1, arg2)
    /\ UNCHANGED <<prim, arg1, arg2, again_ret, magnitude_ret, topk_vars, calls, svc_vars>>

CallEuclideanDistance ==
    /\ prim = "euclidean_distance" /\ ~prim_done
    /\ prim_done' = TRUE
    /\ prim_ret' = euclidean_distance(arg1, arg2)
    /\ UNCHANGED <<prim, arg1, arg2, again_ret, magnitude_ret, topk_vars, calls, svc_vars>>

CallDotProduct ==
    /\ prim = "dot_product" /\ ~prim_done
    /\ prim_done' = TRUE
    /\ prim_ret' = dot_product(arg1, arg2)
    /\ UNCHANGED <<prim, arg1, arg2, again_ret, magnitude_ret, topk_vars, calls, svc_vars>>

CallNormalizeVector ==
    /\ prim = "normalize_vector" /\ ~prim_done
    /\ prim_done' = TRUE
    /\ prim_ret' = normalize_vector(arg1)
    /\ UNCHANGED <<prim, arg1, arg2, again_ret, magnitude_ret, topk_vars, calls, svc_vars>>

CallMeanVector ==
    /\ prim = "mean_vector" /\ ~prim_done
    /\ prim_done' = TRUE
    /\ prim_ret' = mean_vector(arg1)
    /\ UNCHANGED <<prim, arg1, arg2, again_ret, magnitude_ret, topk_vars, calls, svc_vars>>

\* normalize_vector(u) for the u a call of normalize_vector returned
CallNormalizeVectorAgain ==
    /\ prim = "normalize_vector" /\ prim_done
    /\ prim_ret.raised = ""
    /\ again_ret = NoCall
    /\ again_ret' = normalize_vector_floats(prim_ret.value)
    /\ UNCHANGED <<prim, arg1, arg2, prim_done, prim_ret, magnitude_ret, topk_vars, calls, svc_vars>>

\* vector_magnitude(u) for the u a call of normalize_vector returned
CallVectorMagnitude ==
    /\ prim = "normalize_vector" /\ prim_done
    /\ prim_ret.raised = ""
    /\ magnitude_ret = NoCall
    /\ magnitude_ret' = vector_magnitude(prim_ret.value)
    /\ UNCHANGED <<prim, arg1, arg2, prim_done, prim_ret, again_ret, topk_vars, calls, svc_vars>>

NextPrimitives ==
    \/ CallCosineSimilarity
    \/ CallEuclideanDistance
    \/ CallDotProduct
    \/ CallNormalizeVector
    \/ CallMeanVector
    \/ CallNormalizeVectorAgain
    \/ CallVectorMagnitude

SpecPrimitives == InitPrimitives /\ [][NextPrimitives]_vars

\* calls of euclidean_distance on vectors of floats: 0.0, 1.0, -1.0, the
\* double next above 1.0, whose square is no double, and elements whose
\* square is the least positive double (2^-537) or lies below it (2^-538,
\* 3 * 2^-539, 2^-600)
DistanceComponents ==
    {FZero, FOne, FNeg(FOne),
     FRound(0, BAdd(BShl(<<1>>, MantBits - 1), <<1>>), 1 - MantBits, FALSE),
     FRound(0, <<1>>, -537, FALSE), FRound(0, <<1>>, -538, FALSE),
     FRound(0, <<3>>, -539, FALSE), FRound(0, <<1>>, -600, FALSE)}
DistanceVectors == UNION {[1..n -> DistanceComponents] : n \in 0..2}

InitDistance ==
    /\ TopKIdle
    /\ prim = "euclidean_distance"
    /\ arg1 \in DistanceVectors
    /\ arg2 \in DistanceVectors
    /\ prim_done = FALSE
    /\ prim_ret = NoCall
    /\ again_ret = NoCall
    /\ magnitude_ret = NoCall
    /\ calls = <<>>
    /\ SvcIdle

CallEuclideanDistanceFloats ==
    /\ prim = "euclidean_distance" /\ ~prim_done
    /\ prim_done' = TRUE
    /\ prim_ret' \in euclidean_distance_outcomes(arg1, arg2)
    /\ UNCHANGED <<prim, arg1, arg2, again_ret, magnitude_ret, topk_vars, calls, svc_vars>>

SpecDistance == InitDistance /\ [][CallEuclideanDistanceFloats]_vars

\* calls of find_top_k_similar on vectors of floats that normalize_vector
\* returned: that of [1, 1], of computed magnitude 0.9999999999999999, and
\* that of [3, 3], one unit in the last place above it in each element and
\* of computed magnitude 1.0; with them a query of another magnitude and a
\* candidate of another dimension
unit_of(vec) == normalize_vector(vec).value
UnitQueryPool == {unit_of(<<1, 1>>), unit_of(<<3, 3>>), ToFloats(<<1, 1>>)}
UnitCandPool == {unit_of(<<1, 1>>), unit_of(<<3, 3>>), ToFloats(<<1>>)}
UnitCandLists == UNION {[1..n -> UnitCandPool] : n \in 0..MaxCands}
UnitMetrics == {"cosine", "dot"}

InitUnit ==
    /\ query_vec \in UnitQueryPool
    /\ candidate_vecs \in {with_ids(c) : c \in UnitCandLists}
    /\ k \in 0..MaxK
    /\ similarity_fn \in UnitMetrics
    /\ pc = "validate" /\ i = 1 /\ scores = <<>> /\ result = <<>> /\ error = ""
    /\ PrimIdle
    /\ calls = <<>>
    /\ SvcIdle

\* lines 183-189: one iteration of the loop, on vectors of floats. Under the
\* metric euclidean the squares are those of a library that gave the scores
\* so far.
ScoreCandidateFloats ==
    /\ pc = "score"
    /\ i <= Len(candidate_vecs)
    /\ \E pow \in PowTables(call_differences(similarity_fn, query_vec, candidate_vecs)) :
         /\ similarity_fn = "euclidean" =>
                \A p \in 1..Len(scores) : \E j \in 1..(i - 1) :
                    /\ candidate_vecs[j][1] = scores[p][1]
                    /\ scores[p][2] =
                           euclidean_distance_floats(pow, query_vec, candidate_vecs[j][2]).value
         /\ scores' = append_score_floats(pow, scores, similarity_fn, query_vec,
                                          candidate_vecs[i])
    /\ i' = i + 1
    /\ UNCHANGED <<query_vec, candidate_vecs, k, similarity_fn, pc, result, error, prim_vars, calls, svc_vars>>

NextUnit == Validate \/ ScoreCandidateFloats \/ Finish

SpecUnit == InitUnit /\ [][NextUnit]_vars

\* ------------------------------------------------------------------------
\* Two calls of find_top_k_similar in progress together (two threads), each
\* with its own arguments and its own locals, interleaved step by step.
\* ------------------------------------------------------------------------
CallIds == {1, 2}
PairQueryPool == {<<1, 1>>, <<0, 1>>}
PairCandPool == {<<1, 1>>, <<-2, 1>>, <<1>>}
PairCandLists == UNION {[1..n -> PairCandPool] : n \in 0..2}
PairMetrics == {"cosine", "euclidean"}
PairKs == {1}

NewCall(query, candidates, top_k, metric) ==
    [query |-> query, candidates |-> candidates, top_k |-> top_k, metric |-> metric,
     pc |-> "validate", next |-> 1, scores |-> <<>>, result |-> <<>>, error |-> ""]

\* one list of scores kept for all calls
store_scores_shared(cs, c, new) == [d \in DOMAIN cs |-> [cs[d] EXCEPT !.scores = new]]

\* scores is a local of the call (line 182): writing it touches no other call
store_scores(cs, c, new) == [cs EXCEPT ![c].scores = new]

InitPair ==
    /\ TopKIdle
    /\ PrimIdle
    /\ SvcIdle
    /\ calls \in [CallIds -> {NewCall(q, with_ids(cl), tk, mt) :
                                 q \in PairQueryPool, cl \in PairCandLists,
                                 tk \in PairKs, mt \in PairMetrics}]

\* lines 156-182 of call c
ValidateCall(c) ==
    /\ calls[c].pc = "validate"
    /\ LET err == validate_inputs(calls[c].query, calls[c].candidates,
                                  calls[c].top_k, calls[c].metric)
       IN  calls' = IF err = ""
                    THEN [store_scores(calls, c, <<>>) EXCEPT ![c].pc = "score"]
                    ELSE [calls EXCEPT ![c].pc = "raised", ![c].error = err]
    /\ UNCHANGED <<topk_vars, prim_vars, svc_vars>>

\* lines 183-189 of call c: one iteration of the loop
ScoreCall(c) ==
    /\ calls[c].pc = "score"
    /\ calls[c].next <= Len(calls[c].candidates)
    /\ calls' = [store_scores(calls, c,
                     append_score(calls[c].scores, calls[c].metric, calls[c].query,
                                  calls[c].candidates[calls[c].next]))
                    EXCEPT ![c].next = @ + 1]
    /\ UNCHANGED <<topk_vars, prim_vars, svc_vars>>

\* lines 191-196 of call c
FinishCall(c) ==
    /\ calls[c].pc = "score"
    /\ calls[c].next > Len(calls[c].candidates)
    /\ LET ret == finish_call(calls[c].scores, calls[c].top_k, calls[c].metric)
       IN  calls' = [calls EXCEPT ![c].pc = IF ret.raised = "" THEN "returned" ELSE "raised",
                                  ![c].scores = IF ret.raised = ""
                                                THEN sort_scores(@, reverse_of(calls[c].metric))
                                                ELSE @,
                                  ![c].result = ret.value,
                                  ![c].error = ret.raised]
    /\ UNCHANGED <<topk_vars, prim_vars, svc_vars>>

NextPair == \E c \in CallIds : ValidateCall(c) \/ ScoreCall(c) \/ FinishCall(c)

SpecPair == InitPair /\ [][NextPair]_vars

\* ------------------------------------------------------------------------
\* RAGService (services/rag.py)
\* ------------------------------------------------------------------------
ErrEmptyQuestion == "Question cannot be empty"
ErrNoEmbeddings == "No CRL embeddings found in database"
ErrOpenAI == "OpenAIError"
FallbackAnswer == "I couldn't find any relevant CRLs to answer this question. Please try rephrasing or ask about a different topic."
QaModel == "settings.openai_qa_model"
\* None, and Some(x) for any other value of an Optional parameter
NoneValue == <<>>
Some(x) == <<x>>

\* settings.rag_top_k
RagTopK == 5

\* str.strip() on the questions of the model
strip(text) == IF text \in {"", " ", "     "} THEN "" ELSE text

\* round(x, 3): the decimal with three places nearest to the exact value of
\* x, ties to even, then the double nearest to that decimal
py_round3(x) ==
    IF x.m = <<>> \/ x.e >= 0 THEN x
    ELSE LET p    == BMulSmall(x.m, 1000, 0)
             q    == BShr(p, -x.e)
             rem  == BSub(p, BShl(q, -x.e))
             half == BShl(<<1>>, -x.e - 1)
             c    == BCmp(rem, half)
             n    == IF c > 0 \/ (c = 0 /\ BIsOdd(q)) THEN BAdd(q, <<1>>) ELSE q
         IN  FDiv(FRound(x.s, n, 0, FALSE), FFromInt(1000))

\* sum(score for _, score, _ in relevant_crls[:3]), added left to right
RECURSIVE sum_scores(_, _)
sum_scores(acc, relevant) ==
    IF relevant = <<>> THEN acc
    ELSE sum_scores(FAdd(acc, Head(relevant)[2]), Tail(relevant))

normalized(score) == FDiv(FAdd(score, FOne), FFromInt(2))

\* the scores used as they are, not brought from [-1, 1] to [0, 1]
compute_confidence_raw(relevant) ==
    IF relevant = <<>> THEN FZero
    ELSE IF Len(relevant) >= 3
    THEN py_round3(FDiv(FAdd(relevant[1][2],
                             FDiv(sum_scores(FZero, SubSeq(relevant, 1, 3)), FFromInt(3))),
                        FFromInt(2)))
    ELSE py_round3(relevant[1][2])

\* lines 282-309
compute_confidence(relevant) ==
    IF relevant = <<>> THEN FZero
    ELSE IF Len(relevant) >= 3
    THEN py_round3(FDiv(FAdd(normalized(relevant[1][2]),
                             normalized(FDiv(sum_scores(FZero, SubSeq(relevant, 1, 3)),
                                             FFromInt(3)))),
                        FFromInt(2)))
    ELSE py_round3(normalized(relevant[1][2]))

\* the CRL records looked up before the ranking: an embedding without a
\* record gives its place to the next-best one
retrieve_similar_crls_refilled(query_embedding, top_k, store, crls) ==
    IF store = <<>> THEN ListRaised(ErrNoEmbeddings)
    ELSE find_top_k_similar(query_embedding,
                            SelectSeq(store, LAMBDA c : c[1] \in crls), top_k, "cosine")

\* lines 136-185: store is the list of (crl_id, embedding) of the embedding
\* repository, crls the ids the CRL repository has a record for; top is the
\* value find_top_k_similar returned (top_results, line 171), computed once
retrieve_similar_crls(query_embedding, top_k, store, crls) ==
    IF store = <<>> THEN ListRaised(ErrNoEmbeddings)
    ELSE CHOOSE ret \in {IF top.raised # "" THEN top
                          ELSE Returned(SelectSeq(top.value, LAMBDA r : r[1] \in crls)) :
                          top \in {find_top_k_similar(query_embedding, store, top_k, "cosine")}} : TRUE

\* line 98 left out: the answer generated whatever was retrieved
after_retrieval_always_generate(relevant) == "generate"

\* line 98: if not relevant_crls
after_retrieval(relevant) == IF relevant = <<>> THEN "fallback" ELSE "generate"

\* One call of answer_question. The embedding store holds up to MaxStore
\* embeddings; the embedding service returns the dummy all-zero vector in
\* dry-run mode and otherwise some vector, or fails.
MaxStore == 3
StorePool == {<<1, 1>>, <<-2, 1>>, <<1, 1, 1>>}
StoreLists == UNION {[1..n -> StorePool] : n \in 0..MaxStore}
CrlSets == {{}, {"a"}, {"b", "c"}, {"a", "b", "c", "d"}}
Questions == {"", " ", "q"}
QueryEmbeddings == {<<1, 1>>, <<0, 1>>, <<1, 1, 1>>}
DummyQueryEmbedding == <<0, 0>>

NewRag(question, top_k, save_to_db, ai_dry_run, store, crls) ==
    [question |-> question, top_k |-> top_k, save_to_db |-> save_to_db,
     ai_dry_run |-> ai_dry_run, store |-> store, crls |-> crls,
     pc |-> "start", query_embedding |-> <<>>, retrieved |-> FALSE, relevant |-> <<>>,
     answer |-> "", chat_calls |-> 0, saves |-> 0, save_attempts |-> 0,
     result |-> NoneValue, error |-> ""]

\* _compute_confidence called on its own, on lists of cosine similarities
ScorePool ==
    {FNeg(FOne), FZero, FOne,
     cosine_similarity(<<1, 1>>, <<1, 1>>).value,
     cosine_similarity(<<1, 1>>, <<-2, 1>>).value}
ScoreLists == UNION {[1..n -> ScorePool] : n \in 0..MaxStore}

DirectConfidence(relevant) ==
    [NewRag("q", NoneValue, FALSE, FALSE, <<>>, {}) EXCEPT
        !.pc = "confidence_call", !.relevant = relevant]

InitRag ==
    /\ TopKIdle
    /\ PrimIdle
    /\ calls = <<>>
    /\ search = <<>>
    /\ openai = <<>>
    /\ JobIdle
    /\ \/ rag \in {NewRag(q, tk, sv, dr, with_ids(st), cr) :
                      q \in Questions, tk \in {NoneValue, Some(1)}, sv \in BOOLEAN,
                      dr \in BOOLEAN, st \in StoreLists, cr \in CrlSets}
       \/ rag \in {DirectConfidence(with_ids(sl)) : sl \in ScoreLists}

RagUnchanged == UNCHANGED <<topk_vars, prim_vars, calls, search, openai, job_vars>>

\* lines 76-80
RagCheckQuestion ==
    /\ rag # <<>> /\ rag.pc = "start"
    /\ rag' = IF rag.question = "" \/ strip(rag.question) = ""
              THEN [rag EXCEPT !.pc = "raised", !.error = ErrEmptyQuestion]
              ELSE [rag EXCEPT !.pc = "embed",
                               !.top_k = IF @ = NoneValue THEN RagTopK ELSE @[1]]
    /\ RagUnchanged

\* lines 85-89: generate_query_embedding returns a vector or raises
RagEmbedQuery ==
    /\ rag # <<>> /\ rag.pc = "embed"
    /\ \/ /\ rag.ai_dry_run
          /\ rag' = [rag EXCEPT !.pc = "retrieve", !.query_embedding = DummyQueryEmbedding]
       \/ /\ ~rag.ai_dry_run
          /\ \E v \in QueryEmbeddings :
                 rag' = [rag EXCEPT !.pc = "retrieve", !.query_embedding = v]
       \/ /\ ~rag.ai_dry_run
          /\ rag' = [rag EXCEPT !.pc = "raised", !.error = ErrOpenAI]
    /\ RagUnchanged

\* lines 92-98
RagRetrieve ==
    /\ rag # <<>> /\ rag.pc = "retrieve"
    /\ \E ret \in {retrieve_similar_crls(rag.query_embedding, rag.top_k, rag.store, rag.crls)} :
           rag' = IF ret.raised # ""
                  THEN [rag EXCEPT !.pc = "raised", !.error = ret.raised]
                  ELSE [rag EXCEPT !.pc = after_retrieval(ret.value),
                                   !.retrieved = TRUE, !.relevant = ret.value]
    /\ RagUnchanged

\* lines 99-106
RagFallback ==
    /\ rag # <<>> /\ rag.pc = "fallback"
    /\ rag' = [rag EXCEPT !.pc = "returned",
                          !.result = [question |-> rag.question, answer |-> FallbackAnswer,
                                      relevant_crls |-> <<>>, confidence |-> FZero,
                                      model |-> QaModel]]
    /\ RagUnchanged

\* lines 109-113: one chat completion, which fails or returns the answer
RagGenerateAnswer ==
    /\ rag # <<>> /\ rag.pc = "generate"
    /\ \/ rag' = [rag EXCEPT !.pc = "confidence", !.chat_calls = @ + 1,
                             !.answer = "generated answer"]
       \/ /\ ~rag.ai_dry_run
          /\ rag' = [rag EXCEPT !.pc = "raised", !.chat_calls = @ + 1, !.error = ErrOpenAI]
    /\ RagUnchanged

\* lines 116-127
RagComputeConfidence ==
    /\ rag # <<>> /\ rag.pc = "confidence"
    /\ rag' = [rag EXCEPT !.pc = IF rag.save_to_db /\ ~rag.ai_dry_run
                                 THEN "save" ELSE "returned",
                          !.result = [question |-> rag.question, answer |-> rag.answer,
                                      relevant_crls |-> [j \in 1..Len(rag.relevant) |->
                                                            rag.relevant[j][1]],
                                      confidence |-> compute_confidence(rag.relevant),
                                      model |-> QaModel]]
    /\ RagUnchanged

\* _save_qa called outside the try of lines 129-132: its error ends the call
RagSave_propagating ==
    /\ rag # <<>> /\ rag.pc = "save"
    /\ \/ rag' = [rag EXCEPT !.pc = "returned", !.save_attempts = @ + 1, !.saves = @ + 1]
       \/ rag' = [rag EXCEPT !.pc = "raised", !.save_attempts = @ + 1,
                             !.result = NoneValue, !.error = "Exception"]
    /\ RagUnchanged

\* lines 127-134: a failure to save is logged and the result returned
RagSave ==
    /\ rag # <<>> /\ rag.pc = "save"
    /\ \/ rag' = [rag EXCEPT !.pc = "returned", !.save_attempts = @ + 1, !.saves = @ + 1]
       \/ rag' = [rag EXCEPT !.pc = "returned", !.save_attempts = @ + 1]
    /\ RagUnchanged

\* lines 282-309, called on its own
RagCallComputeConfidence ==
    /\ rag # <<>> /\ rag.pc = "confidence_call"
    /\ rag' = [rag EXCEPT !.pc = "confidence_returned",
                          !.result = compute_confidence(rag.relevant)]
    /\ RagUnchanged

NextRag ==
    \/ RagCheckQuestion
    \/ RagEmbedQuery
    \/ RagRetrieve
    \/ RagFallback
    \/ RagGenerateAnswer
    \/ RagComputeConfidence
    \/ RagSave
    \/ RagCallComputeConfidence

SpecRag == InitRag /\ [][NextRag]_vars

\* ------------------------------------------------------------------------
\* The semantic-search endpoint (api/search.py) and utils/recaptcha.py
\* ------------------------------------------------------------------------
ErrBlankQuery == "Query cannot be empty"
ErrNoAttribute == "'Settings' object has no attribute 'recaptcha_secret_key'"
RecaptchaFailedPrefix == "reCAPTCHA validation failed: "
SearchFailedPrefix == "Semantic search failed: "

\* An exception in flight, and the response the client is sent
HTTPException(status_code, detail) ==
    [kind |-> "HTTPException", status_code |-> status_code, detail |-> detail]
Exception(message) == [kind |-> "Exception", status_code |-> 0, detail |-> message]
Response(status_code, detail, results) ==
    [status_code |-> status_code, detail |-> detail, results |-> results]

\* recaptcha.py line 118; the attribute is read from the settings object and
\* the read raises when the settings class does not declare it
is_recaptcha_enabled(settings) ==
    IF ~settings.declared THEN [raised |-> ErrNoAttribute, value |-> FALSE]
    ELSE [raised |-> "", value |-> settings.recaptcha_secret_key # ""]

\* recaptcha.py lines 43-105: scores are in tenths; google is what the POST to
\* the siteverify API does: it times out, answers with an error status, fails
\* otherwise, or answers with a JSON document
Verdict(is_valid, score, error_msg) ==
    [raised |-> "", is_valid |-> is_valid, score |-> score, error_msg |-> error_msg]

verify_recaptcha(token, settings, google) ==
    IF ~settings.declared
    THEN [raised |-> ErrNoAttribute, is_valid |-> FALSE, score |-> 0, error_msg |-> ""]
    ELSE IF settings.recaptcha_secret_key = "" THEN Verdict(TRUE, 10, "")
    ELSE IF token = "" \/ strip(token) = "" THEN Verdict(FALSE, 0, "Missing reCAPTCHA token")
    ELSE IF google.kind = "timeout" THEN Verdict(FALSE, 0, "reCAPTCHA verification timeout")
    ELSE IF google.kind = "http_error" THEN Verdict(FALSE, 0, "reCAPTCHA API error: 500")
    ELSE IF google.kind = "error" THEN Verdict(FALSE, 0, "reCAPTCHA verification failed")
    ELSE IF ~google.success THEN Verdict(FALSE, 0, "reCAPTCHA verification failed: ")
    ELSE IF google.score < settings.recaptcha_min_score
    THEN Verdict(FALSE, google.score, "reCAPTCHA score too low")
    ELSE Verdict(TRUE, google.score, "")

\* the generic handler placed first: every exception answered with a 500
handle_exception_generic_only(exc) ==
    Response(500, <<SearchFailedPrefix, exc.detail>>, <<>>)

\* search.py lines 288-297: the handlers of the endpoint's try block
handle_exception(exc) ==
    IF exc.kind = "HTTPException"
    THEN Response(exc.status_code, exc.detail, <<>>)
    ELSE Response(500, <<SearchFailedPrefix, exc.detail>>, <<>>)

\* search.py lines 252-283
format_results(relevant) ==
    [j \in 1..Len(relevant) |->
        [id |-> relevant[j][1], similarity_score |-> py_round3(normalized(relevant[j][2]))]]

SettingsPool ==
    {[declared |-> d, recaptcha_secret_key |-> key, recaptcha_min_score |-> 5] :
        d \in BOOLEAN, key \in {"", "secret"}}
CaptchaTokens == {" ", "token"}
GoogleAnswers ==
    {[kind |-> kd, success |-> FALSE, score |-> 0] : kd \in {"timeout", "http_error", "error"}}
    \cup {[kind |-> "json", success |-> su, score |-> sc] : su \in BOOLEAN, sc \in {1, 5, 9}}
SearchQueries == {"     ", "clinical efficacy"}
SearchStores == {<<>>, <<<<1, 1>>>>, <<<<-2, 1>>, <<1, 1>>>>}

\* one request: its arguments, the application it is sent to, its position
\* in the endpoint and what it has done
NewSearch(settings, captcha_token, google, query, top_k, ai_dry_run, store, crls) ==
    [settings |-> settings, captcha_token |-> captcha_token, google |-> google,
     query |-> query, top_k |-> top_k, ai_dry_run |-> ai_dry_run,
     store |-> store, crls |-> crls,
     pc |-> "recaptcha", verify_calls |-> 0, embed_calls |-> 0, retrieve_calls |-> 0,
     verdict |-> NoneValue, query_embedding |-> <<>>, relevant |-> <<>>,
     response |-> NoneValue]

\* the requests served together by the event loop
RequestIds == {1, 2}
\* what a second request to the same application brings of its own
PeerTokens == CaptchaTokens
PeerAnswers ==
    {[kind |-> "timeout", success |-> FALSE, score |-> 0],
     [kind |-> "json", success |-> TRUE, score |-> 1],
     [kind |-> "json", success |-> TRUE, score |-> 9]}

\* recaptcha.py lines 43-50: with a secret key and a token that is not blank
\* the token is posted to the siteverify API
posts_token(token, settings) ==
    /\ settings.declared
    /\ settings.recaptcha_secret_key # ""
    /\ ~(token = "" \/ strip(token) = "")

\* search.py lines 231-236 after verify_recaptcha has returned or raised v
after_verification(req, v) ==
    IF v.raised # ""
    THEN [req EXCEPT !.pc = "answered",
             !.response = handle_exception(Exception(v.raised))]
    ELSE IF ~v.is_valid
    THEN [req EXCEPT !.pc = "answered",
             !.verdict = Some(v),
             !.response = handle_exception(
                 HTTPException(403, <<RecaptchaFailedPrefix, v.error_msg>>))]
    ELSE [req EXCEPT !.pc = "embed", !.verdict = Some(v)]

\* search.running is the request whose coroutine the event loop is running,
\* 0 when every coroutine is suspended or finished; a coroutine keeps the
\* loop until it awaits the POST of recaptcha.py line 62 or returns
InitSearch ==
    /\ TopKIdle
    /\ PrimIdle
    /\ calls = <<>>
    /\ rag = <<>>
    /\ openai = <<>>
    /\ JobIdle
    /\ search \in {[running |-> 0,
                    requests |-> <<NewSearch(se, tok, g, q, 1, dr, with_ids(st), cr),
                                   NewSearch(se, tok2, g2, "clinical efficacy", 1, dr,
                                             with_ids(st), cr)>>] :
                      se \in SettingsPool, tok \in CaptchaTokens, g \in GoogleAnswers,
                      q \in SearchQueries, dr \in BOOLEAN, st \in SearchStores,
                      cr \in {{}, {"a", "b"}}, tok2 \in PeerTokens, g2 \in PeerAnswers}

SearchUnchanged == UNCHANGED <<topk_vars, prim_vars, calls, rag, openai, job_vars>>

\* request r is where the event loop can run it as far as place
SearchAt(r, place) ==
    /\ search # <<>>
    /\ search.requests[r].pc = place
    /\ search.running \in {0, r}

\* the request goes on as req; it gives up the loop when it suspends or ends
SearchStep(r, req) ==
    search' = [search EXCEPT !.requests[r] = req,
                  !.running = IF req.pc \in {"verifying", "answered"} THEN 0 ELSE r]

\* line 219
SearchCheckRecaptcha(r) ==
    /\ SearchAt(r, "recaptcha")
    /\ LET req == search.requests[r]
           enabled == is_recaptcha_enabled(req.settings)
       IN  SearchStep(r, IF enabled.raised # ""
                         THEN [req EXCEPT !.pc = "answered",
                                  !.response = handle_exception(Exception(enabled.raised))]
                         ELSE [req EXCEPT !.pc = IF enabled.value THEN "verify" ELSE "embed"])
    /\ SearchUnchanged

\* lines 220-225 and recaptcha.py lines 43-62: verify_recaptcha is called; it
\* returns at once for a blank token, and else posts the token and awaits
\* the answer
SearchVerify(r) ==
    /\ SearchAt(r, "verify")
    /\ LET req == [search.requests[r] EXCEPT !.verify_calls = @ + 1]
       IN  SearchStep(r, IF posts_token(req.captcha_token, req.settings)
                         THEN [req EXCEPT !.pc = "verifying"]
                         ELSE after_verification(req,
                                  verify_recaptcha(req.captcha_token, req.settings, req.google)))
    /\ SearchUnchanged

\* recaptcha.py lines 62-105 and search.py lines 227-236: the POST is over
\* (answer, timeout or failure) and the coroutine is resumed
SearchVerified(r) ==
    /\ SearchAt(r, "verifying")
    /\ LET req == search.requests[r]
       IN  SearchStep(r, after_verification(req,
                             verify_recaptcha(req.captcha_token, req.settings, req.google)))
    /\ SearchUnchanged

\* lines 239-246: generate_query_embedding (embeddings.py lines 143-147)
\* rejects a blank query, and else returns a vector or fails
SearchEmbed(r) ==
    /\ SearchAt(r, "embed")
    /\ LET req == [search.requests[r] EXCEPT !.embed_calls = @ + 1]
       IN  \/ /\ req.query = "" \/ strip(req.query) = ""
              /\ SearchStep(r, [req EXCEPT !.pc = "answered",
                                   !.response = handle_exception(Exception(ErrBlankQuery))])
           \/ /\ ~(req.query = "" \/ strip(req.query) = "")
              /\ req.ai_dry_run
              /\ SearchStep(r, [req EXCEPT !.pc = "retrieve",
                                   !.query_embedding = DummyQueryEmbedding])
           \/ /\ ~(req.query = "" \/ strip(req.query) = "")
              /\ ~req.ai_dry_run
              /\ \E v \in QueryEmbeddings :
                     SearchStep(r, [req EXCEPT !.pc = "retrieve", !.query_embedding = v])
           \/ /\ ~(req.query = "" \/ strip(req.query) = "")
              /\ ~req.ai_dry_run
              /\ SearchStep(r, [req EXCEPT !.pc = "answered",
                                   !.response = handle_exception(Exception(ErrOpenAI))])
    /\ SearchUnchanged

\* lines 249-286
SearchRetrieve(r) ==
    /\ SearchAt(r, "retrieve")
    /\ LET req == [search.requests[r] EXCEPT !.retrieve_calls = @ + 1]
       IN  \E ret \in {retrieve_similar_crls(req.query_embedding, req.top_k,
                                              req.store, req.crls)} :
               SearchStep(r, IF ret.raised # ""
                             THEN [req EXCEPT !.pc = "answered",
                                      !.response = handle_exception(Exception(ret.raised))]
                             ELSE [req EXCEPT !.pc = "answered",
                                      !.relevant = ret.value,
                                      !.response = Response(200, <<>>,
                                                            format_results(ret.value))])
    /\ SearchUnchanged

NextSearch ==
    \E r \in RequestIds :
        \/ SearchCheckRecaptcha(r)
        \/ SearchVerify(r)
        \/ SearchVerified(r)
        \/ SearchEmbed(r)
        \/ SearchRetrieve(r)

SpecSearch == InitSearch /\ [][NextSearch]_vars

\* ------------------------------------------------------------------------
\* OpenAIClient.create_embedding (utils/openai_client.py)
\* ------------------------------------------------------------------------
\* length of the dummy vector of line 160
DryRunDimension == 1536
\* stop_after_attempt(3) of the retry decorator, line 131
MaxAttempts == 3

EmbeddingModels == {"text-embedding-3-large", "text-embedding-3-small"}
EmbeddingTexts == {"", "test text", "another text"}
\* what the embeddings API answers with, standing for vectors of any length
ApiEmbeddings == {<<1, 1>>, <<0, 1>>}

\* lines 155-156
model_in_effect(model, default_model) ==
    IF model = NoneValue THEN default_model ELSE model[1]

\* lines 158-162: [0.0] * 1536
DummyEmbedding == [j \in 1..DryRunDimension |-> FZero]
dummy_embedding(model) == DummyEmbedding

NewEmbeddingCall(text, model, default_model, dry_run) ==
    [text |-> text, model |-> model, openai_embedding_model |-> default_model,
     dry_run |-> dry_run, pc |-> "start", used_model |-> "", attempts |-> 0,
     api_calls |-> 0, embedding |-> <<>>, error |-> ""]

InitOpenAI ==
    /\ TopKIdle
    /\ PrimIdle
    /\ calls = <<>>
    /\ rag = <<>>
    /\ search = <<>>
    /\ JobIdle
    /\ openai \in {NewEmbeddingCall(t, mo, dm, dr) :
                      t \in EmbeddingTexts,
                      mo \in {NoneValue} \cup {Some(x) : x \in EmbeddingModels},
                      dm \in EmbeddingModels, dr \in BOOLEAN}

OpenAIUnchanged == UNCHANGED <<topk_vars, prim_vars, calls, rag, search, job_vars>>

\* lines 155-162
CreateEmbeddingStart ==
    /\ openai # <<>> /\ openai.pc = "start"
    /\ LET used == model_in_effect(openai.model, openai.openai_embedding_model)
       IN  openai' = IF openai.dry_run
                     THEN [openai EXCEPT !.pc = "returned", !.used_model = used,
                              !.attempts = 1, !.embedding = dummy_embedding(used)]
                     ELSE [openai EXCEPT !.pc = "api", !.used_model = used, !.attempts = 1]
    /\ OpenAIUnchanged

\* lines 164-171: the API answers
CreateEmbeddingApiAnswers ==
    /\ openai # <<>> /\ openai.pc = "api"
    /\ \E v \in ApiEmbeddings :
           openai' = [openai EXCEPT !.pc = "returned", !.api_calls = @ + 1,
                         !.embedding = [j \in 1..Len(v) |-> FFromInt(v[j])]]
    /\ OpenAIUnchanged

\* lines 129-134 and 173-175: the API fails with OpenAIError; the call is
\* made again until the third attempt has failed, then the error is raised
CreateEmbeddingApiFails ==
    /\ openai # <<>> /\ openai.pc = "api"
    /\ openai' = IF openai.attempts < MaxAttempts
                 THEN [openai EXCEPT !.api_calls = @ + 1, !.attempts = @ + 1]
                 ELSE [openai EXCEPT !.pc = "raised", !.api_calls = @ + 1,
                          !.error = ErrOpenAI]
    /\ OpenAIUnchanged

NextOpenAI ==
    \/ CreateEmbeddingStart
    \/ CreateEmbeddingApiAnswers
    \/ CreateEmbeddingApiFails

SpecOpenAI == InitOpenAI /\ [][NextOpenAI]_vars

\* ------------------------------------------------------------------------
\* DataProcessorService (services/data_processor.py)
\* ------------------------------------------------------------------------
\* str.replace(" ", "").replace("-", "") on the application numbers of the model
remove_spaces_and_dashes(app_num) ==
    CASE app_num \in {"NDA 1", "NDA-1"} -> "NDA1"
      [] app_num = "BLA 2"              -> "BLA2"
      [] OTHER                          -> app_num

\* hashlib.md5(text.encode()).hexdigest()[:6] on the file names of the model
md5_hex6(text) ==
    CASE text = "crl_3769.pdf" -> "c22fe4"
      [] text = "crl_4840.pdf" -> "c22fe4"
      [] text = "file1.pdf"    -> "0809b5"
      [] OTHER                 -> "d41d8c"

\* hashlib.md5(text.encode()).hexdigest()[:8] on the letter dates of the model
md5_hex8(text) == IF text = "13/45/2024" THEN "28a9b7a2" ELSE "d41d8cd9"

\* datetime.strptime(letter_date, "%m/%d/%Y").strftime("%Y%m%d"), or None
\* where strptime raises ValueError
strptime_mdy(letter_date) ==
    IF letter_date = "01/15/2024" THEN Some("20240115") ELSE NoneValue

\* lines 117-137
generate_base_id(application_numbers, letter_date) ==
    LET app_num == IF application_numbers # <<>> THEN application_numbers[1] ELSE "UNKNOWN"
        date_str ==
            IF letter_date \in {"01/15/2024", "13/45/2024"}      \* "/" in letter_date
            THEN IF strptime_mdy(letter_date) # NoneValue
                 THEN strptime_mdy(letter_date)[1]
                 ELSE md5_hex8(letter_date)
            ELSE IF letter_date = "20240115"                     \* eight digits
            THEN letter_date
            ELSE md5_hex8(letter_date)
    IN  remove_spaces_and_dashes(app_num) \o "_" \o date_str

\* lines 94-97: the counter goes up until the id is not used in the batch
RECURSIVE with_counter(_, _, _)
with_counter(stem, counter, used_ids) ==
    IF (stem \o "_" \o ToString(counter)) \in used_ids
    THEN with_counter(stem, counter + 1, used_ids)
    ELSE stem \o "_" \o ToString(counter)

\* the id with the hash of the file name, never checked against the batch
suffixed_id_unchecked(base_id, file_name, used_ids) ==
    base_id \o "_" \o md5_hex6(file_name)

\* lines 89-97
suffixed_id(base_id, file_name, used_ids) ==
    IF (base_id \o "_" \o md5_hex6(file_name)) \in used_ids
    THEN with_counter(base_id \o "_" \o md5_hex6(file_name), 1, used_ids)
    ELSE base_id \o "_" \o md5_hex6(file_name)

\* lines 79-97 for one record: the id it is given, or None when the record
\* raises (file_name None has no encode()) and is skipped
final_id(record, used_ids, stored_ids) ==
    LET base_id == generate_base_id(record.application_number, record.letter_date)
    IN  IF base_id \in stored_ids \/ base_id \in used_ids
        THEN IF record.file_name = NoneValue THEN NoneValue
             ELSE Some(suffixed_id(base_id, record.file_name[1], used_ids))
        ELSE Some(base_id)

\* lines 77-111: the loop, from the records still to parse
RECURSIVE parse_from(_, _, _, _)
parse_from(results, used_ids, parsed_crls, stored_ids) ==
    IF results = <<>> THEN parsed_crls
    ELSE IF final_id(Head(results), used_ids, stored_ids) = NoneValue
    THEN parse_from(Tail(results), used_ids, parsed_crls, stored_ids)
    ELSE parse_from(Tail(results),
                    used_ids \cup {final_id(Head(results), used_ids, stored_ids)[1]},
                    Append(parsed_crls,
                           [id   |-> final_id(Head(results), used_ids, stored_ids)[1],
                            text |-> Head(results).text]),
                    stored_ids)

\* lines 61-115; stored_ids are the ids crl_repo.exists answers True for
parse_all_crls(results, stored_ids) == parse_from(results, {}, <<>>, stored_ids)

\* the crls table: rows (id, text), id the primary key
stored_ids_of(db) == {row.id : row \in db}
text_of(db, crl_id) == (CHOOSE row \in db : row.id = crl_id).text

\* lines 167-200
new_crls_of(parsed_crls, db) ==
    SelectSeq(parsed_crls, LAMBDA crl : crl.id \notin stored_ids_of(db))
updated_crls_of(parsed_crls, db) ==
    SelectSeq(parsed_crls, LAMBDA crl : /\ crl.id \in stored_ids_of(db)
                                       /\ text_of(db, crl.id) # crl.text)

\* line 286
failed_count(parsed_crls, new_count, updated_count) ==
    Len(parsed_crls) - new_count - updated_count

\* cleanup_old_data of ingest_data_ci.py (lines 62-76) unlinks the database
\* file; that of ingest_data.py (lines 120-158) asks first and deletes
\* nothing when the answer is no. db is the crls table of the file; the same
\* table, empty, is what a run finds where the file is missing.
cleanup_old_data(db, script, confirmed) ==
    IF script = "ingest_data" /\ ~confirmed
    THEN [db |-> db, deleted |-> FALSE]
    ELSE [db |-> {}, deleted |-> TRUE]

PipelineScripts == {"ingest_data", "ingest_data_ci"}

MaxRecords == 2
MaxRuns == 3
MaxFailures == 1

RecordPool ==
    {[application_number |-> <<"NDA 1">>, letter_date |-> "01/15/2024",
      file_name |-> Some("crl_3769.pdf"), text |-> "A"],
     [application_number |-> <<"NDA-1">>, letter_date |-> "20240115",
      file_name |-> Some("crl_4840.pdf"), text |-> "B"],
     [application_number |-> <<"NDA 1">>, letter_date |-> "01/15/2024",
      file_name |-> Some("crl_3769.pdf"), text |-> "A2"],
     [application_number |-> <<"NDA 1">>, letter_date |-> "01/15/2024",
      file_name |-> NoneValue, text |-> "C"],
     [application_number |-> <<>>, letter_date |-> "13/45/2024",
      file_name |-> Some("file1.pdf"), text |-> "D"],
     [application_number |-> <<"BLA 2", "NDA 1">>, letter_date |-> "",
      file_name |-> Some(""), text |-> "E"]}
ResultLists == UNION {[1..n -> RecordPool] : n \in 0..MaxRecords}
InitialDbs == {{}, {[id |-> "NDA1_20240115", text |-> "A"]}}

ids_of(crls) == {crls[j].id : j \in 1..Len(crls)}
FailureSets(crls) == {bad \in SUBSET ids_of(crls) : Cardinality(bad) <= MaxFailures}

\* a call of process_and_store and the crls table; run counts the calls and
\* in_a_row those made since the database file was last deleted
NewIngest(results, has_meta, db) ==
    [results |-> results, has_meta |-> has_meta, db |-> db, run |-> 1, in_a_row |-> 1,
     pc |-> "parse",
     ids_before |-> stored_ids_of(db), all_stored |-> TRUE,
     parsed_crls |-> <<>>, new_crls |-> <<>>, updated_crls |-> <<>>,
     new_count |-> 0, updated_count |-> 0, store_errors |-> 0,
     stats |-> NoneValue, error |-> ""]

InitIngest ==
    /\ TopKIdle
    /\ PrimIdle
    /\ calls = <<>>
    /\ rag = <<>> /\ search = <<>> /\ openai = <<>>
    /\ batch = <<>> /\ embgen = <<>>
    /\ ingest \in {NewIngest(rs, hm, db) :
                      rs \in ResultLists, hm \in BOOLEAN, db \in InitialDbs}

IngestUnchanged == UNCHANGED <<topk_vars, prim_vars, calls, rag, search, openai, batch, embgen>>

\* line 260
IngestParse ==
    /\ ingest # <<>> /\ ingest.pc = "parse"
    /\ ingest' = [ingest EXCEPT !.pc = "detect",
                     !.parsed_crls = parse_all_crls(ingest.results, stored_ids_of(ingest.db))]
    /\ IngestUnchanged

\* line 263
IngestDetect ==
    /\ ingest # <<>> /\ ingest.pc = "detect"
    /\ ingest' = [ingest EXCEPT !.pc = "create",
                     !.new_crls = new_crls_of(ingest.parsed_crls, ingest.db),
                     !.updated_crls = updated_crls_of(ingest.parsed_crls, ingest.db)]
    /\ IngestUnchanged

\* line 266 (store_crls, lines 202-244): a create that raises is logged and
\* the loop goes on; bad are the ids whose create raises
IngestCreate ==
    /\ ingest # <<>> /\ ingest.pc = "create"
    /\ \E bad \in FailureSets(ingest.new_crls) :
           ingest' = [ingest EXCEPT !.pc = "update",
                         !.db = @ \cup {ingest.new_crls[j] : j \in
                                            {n \in 1..Len(ingest.new_crls) :
                                                 ingest.new_crls[n].id \notin bad}},
                         !.new_count = Len(ingest.new_crls) - Cardinality(bad),
                         !.store_errors = @ + Cardinality(bad),
                         !.all_stored = @ /\ bad = {}]
    /\ IngestUnchanged

\* line 269 (store_crls with crl_repo.update, database.py lines 497-524):
\* update is exists, DELETE, INSERT with no transaction around them. bad are
\* the ids whose update raises; of these, lost are the ids whose INSERT
\* raises after the DELETE went through, so that the stored row is gone,
\* and the others raise at exists or at the DELETE and keep their row
IngestUpdate ==
    /\ ingest # <<>> /\ ingest.pc = "update"
    /\ \E bad \in FailureSets(ingest.updated_crls) :
         \E lost \in SUBSET bad :
           LET done == {ingest.updated_crls[j] : j \in
                           {n \in 1..Len(ingest.updated_crls) :
                                ingest.updated_crls[n].id \notin bad}}
           IN  ingest' = [ingest EXCEPT !.pc = "finish",
                             !.db = {row \in @ : row.id \notin stored_ids_of(done) \cup lost}
                                        \cup done,
                             !.updated_count = Len(ingest.updated_crls) - Cardinality(bad),
                             !.store_errors = @ + Cardinality(bad),
                             !.all_stored = @ /\ bad = {}]
    /\ IngestUnchanged

\* lines 272-291: data["meta"] raises KeyError when the key is missing
IngestFinish ==
    /\ ingest # <<>> /\ ingest.pc = "finish"
    /\ ingest' = IF ~ingest.has_meta
                 THEN [ingest EXCEPT !.pc = "raised", !.error = "'meta'"]
                 ELSE [ingest EXCEPT !.pc = "returned",
                          !.stats = Some([new_crls |-> ingest.new_count,
                                          updated_crls |-> ingest.updated_count,
                                          total_in_db |-> Cardinality(ingest.db),
                                          failed |-> failed_count(ingest.parsed_crls,
                                                                  ingest.new_count,
                                                                  ingest.updated_count)])]
    /\ IngestUnchanged

\* process_and_store called again on the same data (load_data.py run again,
\* on its own or as the step of the pipeline that follows cleanup_old_data)
IngestAgain ==
    /\ ingest # <<>> /\ ingest.pc \in {"returned", "raised"}
    /\ ingest.run < MaxRuns
    /\ ingest' = [ingest EXCEPT !.run = @ + 1, !.in_a_row = @ + 1, !.pc = "parse",
                     !.ids_before = stored_ids_of(ingest.db),
                     !.parsed_crls = <<>>, !.new_crls = <<>>, !.updated_crls = <<>>,
                     !.new_count = 0, !.updated_count = 0, !.store_errors = 0,
                     !.stats = NoneValue, !.error = ""]
    /\ IngestUnchanged

\* the first step of the pipelines ingest_data.py (lines 184-187) and
\* ingest_data_ci.py (lines 91-93), between two runs of load_data.py: the
\* tables are gone with the database file, crls and crl_embeddings alike,
\* and init_db of the next run makes them anew
IngestCleanup ==
    /\ ingest # <<>> /\ ingest.pc \in {"returned", "raised"}
    /\ \E script \in PipelineScripts, confirmed \in BOOLEAN :
         \E ret \in {cleanup_old_data(ingest.db, script, confirmed)} :
           /\ ingest' = [ingest EXCEPT !.db = ret.db,
                            !.in_a_row = IF ret.deleted THEN 0 ELSE @]
           /\ embgen' = IF ret.deleted /\ embgen # <<>>
                        THEN [embgen EXCEPT !.all_crls = <<>>, !.table = <<>>]
                        ELSE embgen
    /\ UNCHANGED <<topk_vars, prim_vars, calls, rag, search, openai, batch>>

NextIngest ==
    \/ IngestParse
    \/ IngestDetect
    \/ IngestCreate
    \/ IngestUpdate
    \/ IngestFinish
    \/ IngestAgain
    \/ IngestCleanup

SpecIngest == InitIngest /\ [][NextIngest]_vars

\* ------------------------------------------------------------------------
\* SummarizationService.batch_summarize (services/summarization.py) and
\* EmbeddingsService.batch_generate_embeddings (services/embeddings.py)
\* ------------------------------------------------------------------------
ErrEmptyCrlText == "CRL text cannot be empty"
ErrEmptyText == "Text cannot be empty"

\* summarization.py lines 102-127, max_length the default 300
create_summary_prompt(crl_text) ==
    "Summarize the following FDA Complete Response Letter (CRL) in approximately 300 words or less.\n\nFocus on:\n1. The main deficiencies or issues identified by the FDA\n2. Which areas were problematic (e.g., clinical data, manufacturing, labeling)\n3. Any specific actions required from the applicant\n\nCRL Text:\n"
        \o crl_text
        \o "\n\nProvide a clear, concise summary that captures the essential points:"

\* openai_client.py lines 177-201, for a prompt of at most
\* ai_dry_run_summary_chars characters, as the prompts of the model are
generate_dummy_summary(text) == "[DRY-RUN SUMMARY] " \o text

\* summarization.py lines 36-100; api is what the completions API does when
\* it is called: it answers with a content or fails
summarize_crl(crl_text, dry_run, api) ==
    IF crl_text = "" \/ strip(crl_text) = "" THEN Raised(ErrEmptyCrlText)
    ELSE IF dry_run THEN Returned(strip(generate_dummy_summary(create_summary_prompt(crl_text))))
    ELSE IF api.kind = "error" THEN Raised(ErrOpenAI)
    ELSE Returned(strip(api.content))

\* embeddings.py lines 38-85; api is what the embeddings API does
generate_embedding(text, dry_run, api) ==
    IF text = "" \/ strip(text) = "" THEN Raised(ErrEmptyText)
    ELSE IF dry_run THEN Returned(dummy_embedding("text-embedding-3-large"))
    ELSE IF api.kind = "error" THEN Raised(ErrOpenAI)
    ELSE Returned(api.content)

\* the tuple appended without looking at the exception
result_tuple_unguarded(item_id, ret) == <<item_id, Some(ret.value), NoneValue>>

\* summarization.py lines 150-156, embeddings.py lines 108-114: the tuple
\* appended for an item, from what the call for it did
result_tuple(item_id, ret) ==
    IF ret.raised = ""
    THEN <<item_id, Some(ret.value), NoneValue>>
    ELSE <<item_id, NoneValue, Some(ret.raised)>>

MaxBatch == 3

BatchIds == {"crl1", "crl2"}
BatchTexts == {"Valid text", "", "     "}
BatchItems == UNION {[1..n -> BatchIds \X BatchTexts] : n \in 0..MaxBatch}
ChatAnswers ==
    {[kind |-> "content", content |-> "The letter cites manufacturing deficiencies."],
     [kind |-> "content", content |-> ""],
     [kind |-> "error", content |-> ""]}
EmbeddingAnswers ==
    {[kind |-> "content", content |-> <<1, 1>>],
     [kind |-> "error", content |-> <<>>]}

NewBatch(service, items, dry_run) ==
    [service |-> service, items |-> items, dry_run |-> dry_run,
     pc |-> "loop", i |-> 1, rets |-> <<>>, results |-> <<>>]

InitBatch ==
    /\ TopKIdle
    /\ PrimIdle
    /\ calls = <<>>
    /\ rag = <<>> /\ search = <<>> /\ openai = <<>>
    /\ ingest = <<>> /\ embgen = <<>>
    /\ batch \in {NewBatch(sv, items, dr) :
                     sv \in {"batch_summarize", "batch_generate_embeddings"},
                     items \in BatchItems, dr \in BOOLEAN}

BatchUnchanged == UNCHANGED <<topk_vars, prim_vars, calls, rag, search, openai, ingest, embgen>>

\* summarization.py lines 149-156: one turn of the loop
BatchSummarizeItem ==
    /\ batch # <<>> /\ batch.pc = "loop" /\ batch.service = "batch_summarize"
    /\ batch.i <= Len(batch.items)
    /\ \E api \in ChatAnswers :
         \E ret \in {summarize_crl(batch.items[batch.i][2], batch.dry_run, api)} :
           batch' = [batch EXCEPT !.i = @ + 1,
                        !.rets = Append(@, ret),
                        !.results = Append(@, result_tuple(batch.items[batch.i][1], ret))]
    /\ BatchUnchanged

\* embeddings.py lines 107-114: one turn of the loop
BatchEmbedItem ==
    /\ batch # <<>> /\ batch.pc = "loop" /\ batch.service = "batch_generate_embeddings"
    /\ batch.i <= Len(batch.items)
    /\ \E api \in EmbeddingAnswers :
         \E ret \in {generate_embedding(batch.items[batch.i][2], batch.dry_run, api)} :
           batch' = [batch EXCEPT !.i = @ + 1,
                        !.rets = Append(@, ret),
                        !.results = Append(@, result_tuple(batch.items[batch.i][1], ret))]
    /\ BatchUnchanged

\* summarization.py lines 158-163, embeddings.py lines 116-121
BatchReturn ==
    /\ batch # <<>> /\ batch.pc = "loop"
    /\ batch.i > Len(batch.items)
    /\ batch' = [batch EXCEPT !.pc = "returned"]
    /\ BatchUnchanged

NextBatch ==
    \/ BatchSummarizeItem
    \/ BatchEmbedItem
    \/ BatchReturn

SpecBatch == InitBatch /\ [][NextBatch]_vars

\* ------------------------------------------------------------------------
\* generate_embeddings.py: one run of the script on the embeddings table
\* ------------------------------------------------------------------------
ErrEmbeddingEmpty == "Generated embedding is empty"
ErrEmbeddingZeros == "Generated embedding is all zeros"
ErrInsert == "Constraint Error"

\* line 271: all(v == 0.0 for v in embedding); a double is 0.0 or -0.0 when
\* its significand is zero. The first disjunct only saves going through the
\* components of the dry-run vector, which are zeros
is_all_zeros(embedding) ==
    \/ embedding = DummyEmbedding
    \/ \A j \in 1..Len(embedding) : embedding[j].m = <<>>

\* the rows of crl_embeddings of a CRL and a type, by position in the table
rows_of(table, crl_id, embedding_type) ==
    {n \in 1..Len(table) : /\ table[n].crl_id = crl_id
                           /\ table[n].embedding_type = embedding_type}

\* lines 176-185: the crl_ids that have an embedding of the type
existing_ids(table, embedding_type) ==
    {table[n].crl_id : n \in {r \in 1..Len(table) : table[r].embedding_type = embedding_type}}

\* lines 187-225; limit_one[crl_id] is the row that the query of lines
\* 197-205 (LIMIT 1, no ORDER BY) answers with for the CRL
get_crls_needing_embeddings(all_crls, table, embedding_type, regenerate, retry_failed, limit_one) ==
    IF regenerate THEN all_crls
    ELSE IF retry_failed
    THEN SelectSeq(all_crls,
                   LAMBDA c : /\ c.crl_id \in existing_ids(table, embedding_type)
                              /\ table[limit_one[c.crl_id]].embedding # <<>>
                              /\ is_all_zeros(table[limit_one[c.crl_id]].embedding))
    ELSE SelectSeq(all_crls, LAMBDA c : c.crl_id \notin existing_ids(table, embedding_type))

\* the embedding stored as it comes
attempt_error_unvalidated(ret, insert_ok) ==
    IF ret.raised # "" THEN ret.raised
    ELSE IF ~insert_ok THEN ErrInsert
    ELSE ""

\* lines 258-303: the exception of one attempt, "" when the row is inserted;
\* ret is what generate_embedding did
attempt_error(ret, insert_ok) ==
    IF ret.raised # "" THEN ret.raised
    ELSE IF ret.value = <<>> THEN ErrEmbeddingEmpty
    ELSE IF is_all_zeros(ret.value) THEN ErrEmbeddingZeros
    ELSE IF ~insert_ok THEN ErrInsert
    ELSE ""

\* lines 432-444 (and 336-383): the counts of the statuses
count_status(results, status) ==
    Cardinality({n \in 1..Len(results) : results[n].status = status})

MaxRetries == 3
MaxCrls == 2

EmbGenCrlIds == {"crl1", "crl2"}
EmbGenTexts == {"Summary of the letter", "     "}
EmbGenTypes == {"summary", "full_text"}
EmbGenAnswers ==
    {[kind |-> "content", content |-> <<FOne, FOne>>],
     [kind |-> "content", content |-> <<FZero, FZero>>],
     [kind |-> "content", content |-> <<>>],
     [kind |-> "error", content |-> <<>>]}
\* the dry run asks the API nothing
NoAnswer == [kind |-> "none", content |-> <<>>]
\* the CRLs of the run, with distinct ids
EmbGenCrlLists ==
    {cl \in UNION {[1..n -> EmbGenCrlIds \X EmbGenTexts] : n \in 0..MaxCrls} :
        \A a, b \in 1..Len(cl) : a # b => cl[a][1] # cl[b][1]}
\* the table at the start, in the order of generated_at; the column
\* embedding is FLOAT[] and the components used here are exact in single
\* precision
EmbGenTables ==
    {<<>>,
     <<[id |-> "row1", crl_id |-> "crl1", embedding_type |-> "summary", embedding |-> <<FOne, FZero>>]>>,
     <<[id |-> "row1", crl_id |-> "crl1", embedding_type |-> "summary", embedding |-> <<FZero, FZero>>]>>,
     <<[id |-> "row1", crl_id |-> "crl1", embedding_type |-> "full_text", embedding |-> <<FOne, FZero>>],
       [id |-> "row2", crl_id |-> "crl2", embedding_type |-> "summary", embedding |-> <<FOne, FZero>>]>>,
     <<[id |-> "row1", crl_id |-> "crl2", embedding_type |-> "summary", embedding |-> <<FZero, FZero>>],
       [id |-> "row2", crl_id |-> "crl2", embedding_type |-> "summary", embedding |-> <<FOne, FZero>>]>>}
\* the rows that callers of EmbeddingRepository.create hand over
EmbeddingCreateInputs ==
    {[id |-> "row2", crl_id |-> "crl1", embedding_type |-> "summary", embedding |-> <<FOne, FOne>>],
     [id |-> "row2", crl_id |-> "crl1", embedding_type |-> "summary", embedding |-> <<FZero, FZero>>]}
\* line 276: str(uuid.uuid4()) is an id that no other row has; uuid4[t] is
\* the one that the coroutine of task t draws
uuid4 == <<"uuid1", "uuid2", "uuid3", "uuid4">>
\* --sequential, or the concurrent mode with --batch-size 1 or the default 50
EmbGenSchedules ==
    {[sequential |-> TRUE, batch_size |-> 50],
     [sequential |-> FALSE, batch_size |-> 1],
     [sequential |-> FALSE, batch_size |-> 50]}

\* what LIMIT 1 may answer with for each CRL that has a row of the type
LimitOneChoices(table, embedding_type) ==
    {f \in [existing_ids(table, embedding_type) -> 1..Len(table)] :
        \A c \in DOMAIN f : f[c] \in rows_of(table, c, embedding_type)}

\* cleanup_duplicates.py lines 108-158: of the rows of a CRL and a type only
\* the one with the latest generated_at stays; dry_run deletes nothing
RECURSIVE keep_most_recent(_, _)
keep_most_recent(table, n) ==
    IF n > Len(table) THEN <<>>
    ELSE (IF \E later \in (n + 1)..Len(table) :
                 /\ table[later].crl_id = table[n].crl_id
                 /\ table[later].embedding_type = table[n].embedding_type
          THEN <<>> ELSE <<table[n]>>) \o keep_most_recent(table, n + 1)

cleanup_duplicate_embeddings(table, dry_run) ==
    IF dry_run THEN table ELSE keep_most_recent(table, 1)

\* app/database.py lines 820-833: EmbeddingRepository.create inserts the row
\* as it is given, whatever the embedding and whatever rows the CRL has; id
\* is the primary key of the table and generated_at defaults to the time of
\* the insert (schemas.py lines 48-55), so that the row is the latest one
EmbeddingRepository_create(table, embedding_data) ==
    IF \E n \in 1..Len(table) : table[n].id = embedding_data.id
    THEN [table |-> table, returned |-> "", raised |-> ErrInsert]
    ELSE [table |-> Append(table, [id |-> embedding_data.id,
                                   crl_id |-> embedding_data.crl_id,
                                   embedding_type |-> embedding_data.embedding_type,
                                   embedding |-> embedding_data.embedding]),
          returned |-> embedding_data.id, raised |-> ""]

\* tasks[n] is the coroutine process_single_embedding(crls[n]): created, not
\* yet run; waiting for the semaphore; calling, generate_embedding running
\* in the executor; sleeping between two attempts; done. waiters is the
\* queue of the semaphore and results holds what the coroutines returned, in
\* the order they returned. table is crl_embeddings and table_before what it
\* was when the run selected its CRLs
NewEmbGen(mode, embed_full_text, crl_list, table, dry_run, max_retries, schedule) ==
    [mode |-> mode,
     embedding_type |-> IF embed_full_text THEN "full_text" ELSE "summary",
     all_crls |-> [n \in 1..Len(crl_list) |->
                      [crl_id |-> crl_list[n][1], text |-> crl_list[n][2],
                       embedding_type |-> IF embed_full_text THEN "full_text" ELSE "summary"]],
     table_before |-> table, table |-> table, dry_run |-> dry_run,
     max_retries |-> max_retries, sequential |-> schedule.sequential,
     batch_size |-> schedule.batch_size, pc |-> "select", crls |-> <<>>,
     tasks |-> <<>>, waiters |-> <<>>, results |-> <<>>, stats |-> NoneValue]

InitEmbGen ==
    /\ TopKIdle
    /\ PrimIdle
    /\ calls = <<>>
    /\ rag = <<>> /\ search = <<>> /\ openai = <<>>
    /\ ingest = <<>> /\ batch = <<>>
    /\ embgen \in {NewEmbGen(md, ft, cl, tb, dr, mr, sch) :
                      md \in {"regenerate", "retry_failed", "incremental"},
                      ft \in BOOLEAN, cl \in EmbGenCrlLists, tb \in EmbGenTables,
                      dr \in BOOLEAN, mr \in 1..MaxRetries, sch \in EmbGenSchedules}

EmbGenUnchanged == UNCHANGED <<topk_vars, prim_vars, calls, rag, search, openai, ingest, batch>>

EmbGenRunning == embgen # <<>> /\ embgen.pc = "run"

\* the coroutines that hold the semaphore
holders == {n \in 1..Len(embgen.tasks) : embgen.tasks[n].pc \in {"calling", "sleeping"}}

\* the event loop runs the first step of every task that as_completed has
\* created before it resumes any of them
AllBegun == \A n \in 1..Len(embgen.tasks) : embgen.tasks[n].pc # "created"

\* lines 98-225, and the coroutines of lines 359-362 (or 432-436)
EmbGenSelect ==
    /\ embgen # <<>> /\ embgen.pc = "select"
    /\ \E limit_one \in LimitOneChoices(embgen.table, embgen.embedding_type) :
         \E selected \in {get_crls_needing_embeddings(
                              embgen.all_crls, embgen.table, embgen.embedding_type,
                              embgen.mode = "regenerate",
                              embgen.mode = "retry_failed", limit_one)} :
           embgen' = [embgen EXCEPT !.pc = "run",
                         !.table_before = embgen.table,
                         !.crls = selected,
                         !.tasks = [n \in 1..Len(selected) |->
                                       [pc |-> "created", attempt |-> 0, api_calls |-> 0]]]
    /\ EmbGenUnchanged

\* lines 246-266: the coroutine of a CRL runs until it returns "skipped",
\* waits for the semaphore or awaits its first call of generate_embedding.
\* --sequential runs the coroutines one after the other, each with a
\* semaphore of its own (lines 432-436); as_completed (line 365) makes the
\* tasks from a set of the coroutines, so that they begin in any order
EmbGenBegin(t) ==
    /\ EmbGenRunning
    /\ t \in 1..Len(embgen.tasks)
    /\ embgen.tasks[t].pc = "created"
    /\ embgen.sequential => \A u \in 1..(t - 1) : embgen.tasks[u].pc = "done"
    /\ embgen' =
         IF embgen.crls[t].text = "" \/ strip(embgen.crls[t].text) = ""
         THEN [embgen EXCEPT !.tasks[t].pc = "done",
                  !.results = Append(@, [status |-> "skipped",
                                         crl_id |-> embgen.crls[t].crl_id,
                                         attempt |-> NoneValue,
                                         detail |-> Some("no text"),
                                         api_calls |-> 0])]
         ELSE IF embgen.sequential \/ Cardinality(holders) < embgen.batch_size
         THEN [embgen EXCEPT !.tasks[t].pc = "calling", !.tasks[t].api_calls = 1]
         ELSE [embgen EXCEPT !.tasks[t].pc = "waiting", !.waiters = Append(@, t)]
    /\ EmbGenUnchanged

\* line 256: the semaphore is free and its first waiter goes on to its
\* first call of generate_embedding (lines 257-266)
EmbGenAcquire ==
    /\ EmbGenRunning
    /\ AllBegun
    /\ embgen.waiters # <<>>
    /\ Cardinality(holders) < embgen.batch_size
    /\ embgen' = [embgen EXCEPT !.tasks[Head(embgen.waiters)].pc = "calling",
                     !.tasks[Head(embgen.waiters)].api_calls = 1,
                     !.waiters = Tail(@)]
    /\ EmbGenUnchanged

\* lines 261-313: the call of generate_embedding is over and the coroutine is
\* resumed; it validates and inserts the embedding and returns "success",
\* or it fails and sleeps before the next attempt, or returns "failed"
EmbGenAnswer(t) ==
    /\ EmbGenRunning
    /\ t \in 1..Len(embgen.tasks)
    /\ embgen.tasks[t].pc = "calling"
    /\ embgen.sequential \/ AllBegun
    \* fault is what the attempt raises before the INSERT, or at it
    /\ \E ret \in {generate_embedding(embgen.crls[t].text, embgen.dry_run, api) :
                       api \in IF embgen.dry_run THEN {NoAnswer} ELSE EmbGenAnswers} :
         \E fault \in {attempt_error(ret, TRUE)} :
           \E failure \in IF fault = "" THEN {"", attempt_error(ret, FALSE)} ELSE {fault} :
             embgen' =
               IF failure = ""
               THEN [embgen EXCEPT !.tasks[t].pc = "done",
                        !.table = Append(@, [id |-> uuid4[t],
                                             crl_id |-> embgen.crls[t].crl_id,
                                             embedding_type |-> embgen.crls[t].embedding_type,
                                             embedding |-> ret.value]),
                        !.results = Append(@, [status |-> "success",
                                               crl_id |-> embgen.crls[t].crl_id,
                                               attempt |-> Some(embgen.tasks[t].attempt + 1),
                                               detail |-> NoneValue,
                                               api_calls |-> embgen.tasks[t].api_calls])]
               ELSE IF embgen.tasks[t].attempt < embgen.max_retries - 1
               THEN [embgen EXCEPT !.tasks[t].pc = "sleeping"]
               ELSE [embgen EXCEPT !.tasks[t].pc = "done",
                        !.results = Append(@, [status |-> "failed",
                                               crl_id |-> embgen.crls[t].crl_id,
                                               attempt |-> NoneValue,
                                               detail |-> Some(failure),
                                               api_calls |-> embgen.tasks[t].api_calls])]
    /\ EmbGenUnchanged

\* lines 306-307 and 257-266: the sleep is over and the next attempt calls
\* generate_embedding
EmbGenWake(t) ==
    /\ EmbGenRunning
    /\ t \in 1..Len(embgen.tasks)
    /\ embgen.tasks[t].pc = "sleeping"
    /\ embgen' = [embgen EXCEPT !.tasks[t].pc = "calling",
                     !.tasks[t].attempt = @ + 1,
                     !.tasks[t].api_calls = @ + 1]
    /\ EmbGenUnchanged

\* lines 365-405 and 430-445: the statistics of the run; only the concurrent
\* mode counts the CRLs embedded after a retry
EmbGenDone ==
    /\ EmbGenRunning
    /\ \A n \in 1..Len(embgen.tasks) : embgen.tasks[n].pc = "done"
    /\ embgen' = [embgen EXCEPT !.pc = "done",
                     !.stats = Some([total |-> Len(embgen.crls),
                                     success |-> count_status(embgen.results, "success"),
                                     failed |-> count_status(embgen.results, "failed"),
                                     skipped |-> count_status(embgen.results, "skipped"),
                                     retried |->
                                         IF embgen.sequential THEN 0
                                         ELSE Cardinality(
                                                  {n \in 1..Len(embgen.results) :
                                                       /\ embgen.results[n].status = "success"
                                                       /\ embgen.results[n].attempt # Some(1)})])]
    /\ EmbGenUnchanged

\* cleanup_duplicates.py run on the table, before the script or after it
EmbGenCleanup ==
    /\ embgen # <<>> /\ embgen.pc \in {"select", "done", "cleaned"}
    /\ \E dry_run \in BOOLEAN :
           embgen' = [embgen EXCEPT !.pc = IF @ = "select" THEN "select" ELSE "cleaned",
                         !.table = cleanup_duplicate_embeddings(@, dry_run)]
    /\ EmbGenUnchanged

\* app/database.py lines 820-833: a call of EmbeddingRepository.create, by
\* any holder of the repository and at any time, before, during or after a
\* run of the script; what it returns or raises goes to its caller
EmbeddingCreate ==
    /\ embgen # <<>>
    /\ \E embedding_data \in EmbeddingCreateInputs :
         \E ret \in {EmbeddingRepository_create(embgen.table, embedding_data)} :
           embgen' = [embgen EXCEPT !.table = ret.table]
    /\ EmbGenUnchanged

\* the steps of the script
EmbGenRun ==
    \/ EmbGenSelect
    \/ \E t \in 1..MaxCrls : EmbGenBegin(t)
    \/ EmbGenAcquire
    \/ \E t \in 1..MaxCrls : EmbGenAnswer(t)
    \/ \E t \in 1..MaxCrls : EmbGenWake(t)
    \/ EmbGenDone

NextEmbGen ==
    \/ EmbGenRun
    \/ EmbGenCleanup
    \/ EmbeddingCreate

\* the calls of the run return: the script goes on until it is done
SpecEmbGen == InitEmbGen /\ [][NextEmbGen]_vars /\ WF_vars(EmbGenRun)

\* calls of find_top_k_similar and direct calls of the primitives
SpecAll == (Init \/ InitPrimitives) /\ [][Next \/ NextPrimitives]_vars

\* ------------------------------------------------------------------------
\* Properties of find_top_k_similar
\* ------------------------------------------------------------------------
Done == pc \in {"returned", "raised"}

\* the arguments pass the checks of lines 156-179
ValidCall ==
    /\ query_vec # <<>>
    /\ candidate_vecs # <<>>
    /\ k >= 1
    /\ similarity_fn \in {"cosine", "dot", "euclidean"}

\* positions of the candidates whose vector has the dimension of the query
Compatible == {j \in 1..Len(candidate_vecs) : Len(candidate_vecs[j][2]) = Len(query_vec)}

ResultIds == {result[r][1] : r \in 1..Len(result)}

\* the score of candidate j under the metric of the call
ScoreOf(j) == score_fn(similarity_fn, query_vec, candidate_vecs[j][2]).value

\* s1 is strictly better than s2 under the metric of the call
Better(s1, s2) ==
    IF similarity_fn = "euclidean" THEN FCmp(s1, s2) < 0 ELSE FCmp(s1, s2) > 0

Min(m, n) == IF m < n THEN m ELSE n

\* C1: a valid call with a compatible candidate returns pairs (id, s) where
\* id is the id of a compatible candidate and s is the metric of the query
\* and that candidate's vector, and no compatible candidate left out of the
\* result is strictly better than a returned entry.
C1_TopKSelectsBest ==
    (Done /\ ValidCall /\ Compatible # {}) =>
        /\ pc = "returned"
        /\ \A r \in 1..Len(result) :
               \E j \in Compatible :
                   /\ candidate_vecs[j][1] = result[r][1]
                   /\ result[r][2] = ScoreOf(j)
        /\ \A j \in Compatible :
               candidate_vecs[j][1] \notin ResultIds =>
                   \A r \in 1..Len(result) : ~Better(ScoreOf(j), result[r][2])

\* a euclidean call that returned fewer entries than there are compatible
\* candidates, one of those left out being strictly worse than a returned one
C1_Witness ==
    /\ pc = "returned"
    /\ similarity_fn = "euclidean"
    /\ Len(result) < Cardinality(Compatible)
    /\ \E j \in Compatible :
           /\ candidate_vecs[j][1] \notin ResultIds
           /\ \E r \in 1..Len(result) : Better(result[r][2], ScoreOf(j))

\* C2: a valid call that does not raise returns min(k, number of compatible
\* candidates) entries.
C2_TopKCardinality ==
    pc = "returned" =>
        /\ ValidCall
        /\ Len(result) = Min(k, Cardinality(Compatible))

\* k exceeds the number of compatible candidates, one candidate was skipped
C2_Witness ==
    /\ pc = "returned"
    /\ k > Cardinality(Compatible)
    /\ Cardinality(Compatible) < Len(candidate_vecs)
    /\ Len(result) = Cardinality(Compatible)
    /\ Len(result) >= 2

\* C3: the returned scores are non-increasing for cosine and dot and
\* non-decreasing for euclidean.
C3_TopKOrdering ==
    pc = "returned" =>
        \A r \in 1..(Len(result) - 1) :
            /\ similarity_fn \in {"cosine", "dot"} =>
                   FCmp(result[r][2], result[r + 1][2]) >= 0
            /\ similarity_fn = "euclidean" =>
                   FCmp(result[r][2], result[r + 1][2]) <= 0

\* a euclidean result with strictly increasing scores, from candidates that
\* were listed in the opposite order
C3_Witness ==
    /\ pc = "returned"
    /\ similarity_fn = "euclidean"
    /\ Len(result) >= 2
    /\ FCmp(result[1][2], result[2][2]) < 0
    /\ \E j1, j2 \in Compatible :
           /\ j1 < j2
           /\ candidate_vecs[j1][1] = result[2][1]
           /\ candidate_vecs[j2][1] = result[1][1]

IsCompatible(cand) == Len(cand[2]) = Len(query_vec)

\* the candidate list without the candidates of another dimension
CompatibleCandidates == SelectSeq(candidate_vecs, IsCompatible)

\* C4: when some but not all candidates have another dimension than the
\* query, the call does not raise, no mismatched candidate is in the result,
\* and the result is that of the call without the mismatched candidates.
C4_MismatchedSkipped ==
    (Done /\ ValidCall /\ Compatible # {}
          /\ Cardinality(Compatible) < Len(candidate_vecs)) =>
        /\ pc = "returned"
        /\ \A j \in 1..Len(candidate_vecs) :
               j \notin Compatible => candidate_vecs[j][1] \notin ResultIds
        /\ find_top_k_similar(query_vec, CompatibleCandidates, k,
                              similarity_fn).raised = ""
        /\ result = find_top_k_similar(query_vec, CompatibleCandidates, k,
                                       similarity_fn).value

\* a mismatched candidate listed first, two compatible ones returned
C4_Witness ==
    /\ pc = "returned"
    /\ 1 \notin Compatible
    /\ Cardinality(Compatible) >= 2
    /\ Len(result) = 2

\* C5: when the arguments are valid and every candidate has another
\* dimension than the query, the call raises "No valid candidates found"
\* and returns no list.
C5_AllMismatchedRaises ==
    (Done /\ ValidCall /\ Compatible = {}) =>
        /\ pc = "raised"
        /\ error = ErrNoValid
        /\ result = <<>>

C5_Witness ==
    /\ pc = "raised"
    /\ error = ErrNoValid
    /\ ValidCall
    /\ Len(candidate_vecs) >= 2

\* C6: the checks run before any candidate is scored, in the order query,
\* candidate list, k, metric name; the first violated one decides the error,
\* and "No valid candidates found" is only raised for valid arguments.
C6_ValidationOrder ==
    /\ pc # "validate" =>
        /\ query_vec = <<>> => error = ErrEmptyQuery
        /\ (query_vec # <<>> /\ candidate_vecs = <<>>) =>
               error = ErrEmptyCandidates
        /\ (query_vec # <<>> /\ candidate_vecs # <<>> /\ k < 1) =>
               error = ErrK
        /\ (query_vec # <<>> /\ candidate_vecs # <<>> /\ k >= 1
              /\ similarity_fn \notin {"cosine", "dot", "euclidean"}) =>
               error = ErrUnknownFn
    /\ ~ValidCall => (pc \in {"validate", "raised"} /\ i = 1 /\ scores = <<>>)
    /\ error = ErrNoValid => ValidCall

\* an unknown metric reported although every candidate is mismatched
C6_Witness ==
    /\ pc = "raised"
    /\ error = ErrUnknownFn
    /\ candidate_vecs # <<>>
    /\ Compatible = {}
    /\ i = 1

\* ------------------------------------------------------------------------
\* Properties of the primitives
\* ------------------------------------------------------------------------
IsZeroVec(v) == \A j \in 1..Len(v) : v[j] = 0

Negated(v) == [j \in 1..Len(v) |-> -v[j]]

IsFloat(x) ==
    /\ x.s \in {0, 1}
    /\ x.m = <<>> \/ BBitLen(x.m) = MantBits
    /\ x.m = <<>> => x = FZero

PairwiseDone(name) == prim = name /\ prim_done

\* C7: cosine_similarity returns 0.0 and raises nothing when an argument has
\* zero magnitude, so under cosine a zero-magnitude candidate, or any
\* candidate against a zero-magnitude query, is scored 0.0 and neither
\* skipped nor fatal.
C7_ZeroMagnitudeCosine ==
    /\ (PairwiseDone("cosine_similarity") /\ arg1 # <<>>
          /\ Len(arg1) = Len(arg2) /\ (IsZeroVec(arg1) \/ IsZeroVec(arg2))) =>
           prim_ret = Returned(FZero)
    /\ (Done /\ ValidCall /\ similarity_fn = "cosine") =>
           \A j \in Compatible :
               (IsZeroVec(query_vec) \/ IsZeroVec(candidate_vecs[j][2])) =>
                   /\ pc = "returned"
                   /\ \E p \in 1..Len(scores) :
                          scores[p] = <<candidate_vecs[j][1], FZero>>

\* a zero-magnitude candidate returned with 0.0 between a better and a worse one
C7_Witness ==
    /\ pc = "returned"
    /\ similarity_fn = "cosine"
    /\ Len(result) = 3
    /\ FCmp(result[1][2], FZero) > 0
    /\ result[2][2] = FZero
    /\ FCmp(result[3][2], FZero) < 0
    /\ \E j \in Compatible :
           /\ candidate_vecs[j][1] = result[2][1]
           /\ IsZeroVec(candidate_vecs[j][2])

\* C8: cosine_similarity, euclidean_distance and dot_product raise the
\* empty-vector error when an argument is empty, the dimension error when
\* both are non-empty of different lengths, and otherwise return a number.
C8_PairwiseErrors ==
    \A name \in {"cosine_similarity", "euclidean_distance", "dot_product"} :
        PairwiseDone(name) =>
            /\ (arg1 = <<>> \/ arg2 = <<>>) => prim_ret.raised = ErrEmptyVectors
            /\ (arg1 # <<>> /\ arg2 # <<>> /\ Len(arg1) # Len(arg2)) =>
                   prim_ret.raised = ErrDimension
            /\ (arg1 # <<>> /\ arg2 # <<>> /\ Len(arg1) = Len(arg2)) =>
                   (prim_ret.raised = "" /\ IsFloat(prim_ret.value))

\* an empty and a non-empty argument: the lengths differ, the error is the
\* empty-vector one
C8_Witness ==
    /\ PairwiseDone("euclidean_distance")
    /\ arg1 = <<>>
    /\ arg2 # <<>>
    /\ prim_ret.raised = ErrEmptyVectors

\* C9: normalize_vector raises the empty-vector error on an empty vector and
\* "Cannot normalize zero vector" on a non-empty vector of magnitude zero,
\* and otherwise returns a vector of the same length.
C9_NormalizeErrors ==
    PairwiseDone("normalize_vector") =>
        /\ arg1 = <<>> => prim_ret.raised = ErrEmptyVector
        /\ (arg1 # <<>> /\ IsZeroVec(arg1)) => prim_ret.raised = ErrZeroVector
        /\ (arg1 # <<>> /\ ~IsZeroVec(arg1)) =>
               /\ prim_ret.raised = ""
               /\ Len(prim_ret.value) = Len(arg1)
               /\ \A j \in 1..Len(arg1) : IsFloat(prim_ret.value[j])
        /\ ErrZeroVector # ErrEmptyVector

C9_Witness ==
    /\ PairwiseDone("normalize_vector")
    /\ Len(arg1) = 2
    /\ IsZeroVec(arg1)
    /\ prim_ret.raised = ErrZeroVector

\* ------------------------------------------------------------------------
\* Range of cosine_similarity
\* ------------------------------------------------------------------------
\* 1 + 2^-34 and 1 - 2^-34: the tolerance 2^-34 is below the 1e-10 of
\* tests/test_vector_utils.py and the 1e-9 of the specification
FOnePlusTol ==
    FRound(0, BAdd(BShl(BFromNat(1), 34), BFromNat(1)), -34, FALSE)

FOneMinusTol ==
    FRound(0, BSub(BShl(BFromNat(1), 34), BFromNat(1)), -34, FALSE)

CosineOfNonZero ==
    /\ PairwiseDone("cosine_similarity")
    /\ arg1 # <<>>
    /\ Len(arg1) = Len(arg2)
    /\ ~IsZeroVec(arg1)
    /\ ~IsZeroVec(arg2)

\* C10 as stated: for non-zero vectors of equal dimension the returned
\* cosine lies in [-1, 1], equals 1 when b = a and -1 when b = -a.
C10_CosineRangeExact ==
    CosineOfNonZero =>
        /\ prim_ret.raised = ""
        /\ FCmp(prim_ret.value, FOne) <= 0
        /\ FCmp(prim_ret.value, FNeg(FOne)) >= 0
        /\ arg2 = arg1 => prim_ret.value = FOne
        /\ arg2 = Negated(arg1) => prim_ret.value = FNeg(FOne)

\* C10, amended: the exact inequality dot(a,b)^2 <= |a|^2 |b|^2 holds, and
\* the returned double lies within the rounding tolerance of [-1, 1], within
\* the tolerance of 1 when b = a and of -1 when b = -a.
C10_CosineRangeWithinTolerance ==
    CosineOfNonZero =>
        /\ prim_ret.raised = ""
        /\ sum_of_products(arg1, arg2) * sum_of_products(arg1, arg2)
               <= sum_of_products(arg1, arg1) * sum_of_products(arg2, arg2)
        /\ FCmp(FAbs(prim_ret.value), FOnePlusTol) <= 0
        /\ arg2 = arg1 => FCmp(prim_ret.value, FOneMinusTol) >= 0
        /\ arg2 = Negated(arg1) => FCmp(prim_ret.value, FNeg(FOneMinusTol)) <= 0

\* a vector against itself whose cosine is above 1.0
C10_Witness ==
    /\ CosineOfNonZero
    /\ arg2 = arg1
    /\ FCmp(prim_ret.value, FOne) > 0
    /\ FCmp(prim_ret.value, FOnePlusTol) <= 0

\* ------------------------------------------------------------------------
\* Symmetry and distance
\* ------------------------------------------------------------------------
\* C11: cosine_similarity, euclidean_distance and dot_product give for
\* (a, b) what they give for (b, a): the same number for non-empty vectors
\* of equal length, the same error otherwise.
C11_Symmetry ==
    /\ PairwiseDone("cosine_similarity") => prim_ret = cosine_similarity(arg2, arg1)
    /\ PairwiseDone("euclidean_distance") => prim_ret = euclidean_distance(arg2, arg1)
    /\ PairwiseDone("dot_product") => prim_ret = dot_product(arg2, arg1)

\* a cosine of two different directions, neither 0 nor of full size
C11_Witness ==
    /\ CosineOfNonZero
    /\ arg1 # arg2
    /\ Len(arg1) = 3
    /\ sum_of_products(arg1, arg1) # sum_of_products(arg2, arg2)
    /\ FCmp(prim_ret.value, FZero) > 0
    /\ prim_ret = cosine_similarity(arg2, arg1)

DistanceDone ==
    PairwiseDone("euclidean_distance") /\ arg1 # <<>> /\ Len(arg1) = Len(arg2)

\* |a - b| for the elements at position j of the two arguments
Gap(j) == FAbs(FAdd(arg1[j], FNeg(arg2[j])))

\* 2^-537, whose square is the least positive double, and 2^-538, whose
\* square lies below it
LeastSquared == FRound(0, <<1>>, -537, FALSE)
HalfLeastSquared == FRound(0, <<1>>, -538, FALSE)

\* C12 as stated: for non-empty vectors of equal length euclidean_distance
\* is >= 0, and it is 0 exactly when the vectors are equal element by
\* element.
C12_DistanceZeroIffEqual ==
    DistanceDone =>
        /\ prim_ret.raised = ""
        /\ FCmp(prim_ret.value, FZero) >= 0
        /\ (prim_ret.value = FZero) <=> (arg1 = arg2)

\* C12, amended: for non-empty vectors of equal length euclidean_distance
\* is >= 0; it is 0 when the vectors are equal element by element, and it is
\* above 0 when some two elements are 2^-537 or more apart.
C12_DistanceZeroOnlyWithinUnderflow ==
    DistanceDone =>
        /\ prim_ret.raised = ""
        /\ FCmp(prim_ret.value, FZero) >= 0
        /\ arg1 = arg2 => prim_ret.value = FZero
        /\ (\E j \in 1..Len(arg1) : FCmp(Gap(j), LeastSquared) >= 0)
               => FCmp(prim_ret.value, FZero) > 0

\* vectors that differ in their last element only, by 2^-538: the distance
\* is 0.0
C12_Witness ==
    /\ DistanceDone
    /\ Len(arg1) = 2
    /\ arg1[1] = arg2[1]
    /\ arg1[1] = FOne
    /\ Gap(2) = HalfLeastSquared
    /\ prim_ret.value = FZero

\* ------------------------------------------------------------------------
\* mean_vector
\* ------------------------------------------------------------------------
MeanDone == prim = "mean_vector" /\ prim_done

MeanInputValid ==
    /\ arg1 # <<>>
    /\ \A j \in 1..Len(arg1) : Len(arg1[j]) = Len(arg1[1])

\* x is y up to the relative tolerance 2^-34
WithinTol(x, y) ==
    IF y = FZero THEN x = FZero
    ELSE /\ x # FZero
         /\ x.s = y.s
         /\ FCmp(FAbs(x), FMul(FAbs(y), FOneMinusTol)) >= 0
         /\ FCmp(FAbs(x), FMul(FAbs(y), FOnePlusTol)) <= 0

MeanErrors ==
    /\ arg1 = <<>> => prim_ret.raised = ErrEmptyList
    /\ (arg1 # <<>> /\ ~MeanInputValid) => prim_ret.raised = ErrAllDimension
    /\ MeanInputValid =>
           (prim_ret.raised = "" /\ Len(prim_ret.value) = Len(arg1[1]))

\* C13 as stated: mean_vector raises the empty-collection error on an empty
\* list, the dimension error when a length differs from the first vector's,
\* and otherwise returns a vector of that length whose i-th element times
\* the number of vectors equals the sum of the i-th elements.
C13_MeanTimesCountIsSum ==
    MeanDone =>
        /\ MeanErrors
        /\ MeanInputValid =>
               \A c \in 1..Len(arg1[1]) :
                   FMul(prim_ret.value[c], FFromInt(Len(arg1)))
                       = FFromInt(column_sum(arg1, c))

\* C13, amended: the same errors and length; the i-th element times the
\* number of vectors equals the sum of the i-th elements up to rounding.
C13_MeanTimesCountNearSum ==
    MeanDone =>
        /\ MeanErrors
        /\ MeanInputValid =>
               \A c \in 1..Len(arg1[1]) :
                   WithinTol(FMul(prim_ret.value[c], FFromInt(Len(arg1))),
                             FFromInt(column_sum(arg1, c)))

\* seven vectors whose mean times seven is not their sum
C13_Witness ==
    /\ MeanDone
    /\ MeanInputValid
    /\ Len(arg1) = 7
    /\ Len(arg1[1]) = 1
    /\ prim_ret.raised = ""
    /\ FMul(prim_ret.value[1], FFromInt(7)) # FFromInt(column_sum(arg1, 1))
    /\ WithinTol(FMul(prim_ret.value[1], FFromInt(7)), FFromInt(column_sum(arg1, 1)))

\* ------------------------------------------------------------------------
\* normalize_vector applied twice
\* ------------------------------------------------------------------------
Normalized == prim = "normalize_vector" /\ prim_done /\ prim_ret.raised = ""

\* C14 as stated: the result of normalize_vector has magnitude 1, and
\* normalize_vector of it returns it again; a vector of magnitude 1 is
\* returned with the same element values.
C14_NormalizeIdempotentExact ==
    Normalized =>
        /\ magnitude_ret # NoCall => magnitude_ret = Returned(FOne)
        /\ again_ret # NoCall => again_ret = prim_ret
        /\ sum_of_products(arg1, arg1) = 1 => prim_ret.value = ToFloats(arg1)

\* C14, amended: the result of normalize_vector has magnitude 1 up to
\* rounding, and normalize_vector of it returns it again up to rounding; a
\* vector of magnitude 1 is returned with the same element values.
C14_NormalizeIdempotentWithinTolerance ==
    Normalized =>
        /\ magnitude_ret # NoCall =>
               /\ magnitude_ret.raised = ""
               /\ WithinTol(magnitude_ret.value, FOne)
        /\ again_ret # NoCall =>
               /\ again_ret.raised = ""
               /\ Len(again_ret.value) = Len(prim_ret.value)
               /\ \A j \in 1..Len(prim_ret.value) :
                      WithinTol(again_ret.value[j], prim_ret.value[j])
        /\ sum_of_products(arg1, arg1) = 1 => prim_ret.value = ToFloats(arg1)

\* a result whose magnitude is not 1.0 and that is not returned unchanged
C14_Witness ==
    /\ Normalized
    /\ magnitude_ret # NoCall
    /\ again_ret # NoCall
    /\ magnitude_ret.value # FOne
    /\ WithinTol(magnitude_ret.value, FOne)
    /\ again_ret.raised = ""
    /\ again_ret.value # prim_ret.value
    /\ \A j \in 1..Len(prim_ret.value) :
           WithinTol(again_ret.value[j], prim_ret.value[j])

\* ------------------------------------------------------------------------
\* dot and cosine on vectors of magnitude 1
\* ------------------------------------------------------------------------
\* x and y at most 2^-34 apart
NearScore(x, y) ==
    FCmp(FAbs(FAdd(x, FNeg(y))), FRound(0, <<1>>, -34, FALSE)) <= 0

\* a vector of magnitude 1 up to rounding, as a result of normalize_vector
\* is: vector_magnitude(v) is at most 2^-36 from 1.0, a quarter of the
\* tolerance of the scores, which the product of two magnitudes divides
IsUnit(fvec) ==
    /\ fvec # <<>>
    /\ FCmp(FAbs(FAdd(vector_magnitude(fvec).value, FNeg(FOne))),
            FRound(0, <<1>>, -36, FALSE)) <= 0

AllUnit ==
    /\ IsUnit(query_vec)
    /\ \A j \in 1..Len(candidate_vecs) : IsUnit(candidate_vecs[j][2])

\* vector_magnitude is exactly 1.0 for the query and every candidate
AllExactlyUnit ==
    /\ vector_magnitude(query_vec) = Returned(FOne)
    /\ \A j \in 1..Len(candidate_vecs) :
           vector_magnitude(candidate_vecs[j][2]) = Returned(FOne)

Outcome == IF pc = "raised" THEN ListRaised(error) ELSE Returned(result)

\* what the call returns with the metric cosine
CosineOutcome ==
    CHOOSE ret \in find_top_k_similar_floats(query_vec, candidate_vecs, k, "cosine") : TRUE

\* the cosine of the query and the candidate of the given id
CosineOf(cand_id) ==
    cosine_similarity_floats(
        query_vec,
        candidate_vecs[CHOOSE j \in 1..Len(candidate_vecs) :
                           candidate_vecs[j][1] = cand_id][2]).value

\* C15 as stated: when the query and every candidate have magnitude 1, the
\* call with metric dot returns the ids, scores and order that the call
\* with metric cosine returns, for every k and every candidate list.
C15_DotEqualsCosineOnUnit ==
    (Done /\ similarity_fn = "dot" /\ AllUnit) => Outcome = CosineOutcome

\* C15, amended: when the query and every candidate have magnitude 1 up to
\* rounding, the call with metric dot raises what the call with metric
\* cosine raises or returns as many pairs; the score at each position is
\* within the tolerance of the score the cosine call has at that position
\* and of the cosine of the candidate returned there; where every computed
\* magnitude is exactly 1.0 the two calls return the same list.
C15_DotNearCosineOnUnit ==
    (Done /\ similarity_fn = "dot" /\ AllUnit) =>
        \A cosine \in {CosineOutcome} :
            /\ Outcome.raised = cosine.raised
            /\ Len(Outcome.value) = Len(cosine.value)
            /\ \A p \in 1..Len(Outcome.value) :
                   /\ NearScore(Outcome.value[p][2], cosine.value[p][2])
                   /\ NearScore(Outcome.value[p][2], CosineOf(Outcome.value[p][1]))
            /\ AllExactlyUnit => Outcome = cosine

\* the unit vectors of [1, 1] and of [3, 3] as candidates of the query
\* [3, 3] normalized: equal under cosine, where the first in the list is
\* returned, and one unit in the last place apart under dot, where the
\* second is
C15_Witness ==
    /\ pc = "returned"
    /\ similarity_fn = "dot"
    /\ AllUnit
    /\ k = 2
    /\ Len(candidate_vecs) = 2
    /\ result[1][1] = "b"
    /\ CosineOutcome.value[1][1] = "a"
    /\ result[2][2] # CosineOutcome.value[2][2]
    /\ NearScore(result[2][2], CosineOutcome.value[2][2])

\* ------------------------------------------------------------------------
\* Side effects of find_top_k_similar
\* ------------------------------------------------------------------------
CallDone(c) == calls[c].pc \in {"returned", "raised"}

OutcomeOf(c) ==
    IF calls[c].pc = "raised" THEN ListRaised(calls[c].error)
    ELSE Returned(calls[c].result)

\* what the call returns or raises when it runs alone
InIsolation(c) ==
    find_top_k_similar(calls[c].query, calls[c].candidates, calls[c].top_k, calls[c].metric)

ArgumentsKept(c) ==
    /\ calls'[c].query = calls[c].query
    /\ calls'[c].candidates = calls[c].candidates
    /\ calls'[c].top_k = calls[c].top_k
    /\ calls'[c].metric = calls[c].metric

\* C16: no step of a call changes the query or the candidate list of any
\* call, and every call, whether it runs before, after or interleaved with
\* another one, with the same or with other arguments, returns or raises
\* what it returns or raises in isolation.
C16_NoSideEffects ==
    /\ [](\A c \in CallIds : CallDone(c) => OutcomeOf(c) = InIsolation(c))
    /\ [][\A c \in CallIds : ArgumentsKept(c)]_vars

\* call 1 has scored two candidates and returned the better one while
\* call 2, on other arguments, is in its loop with one candidate scored
C16_Witness ==
    /\ calls # <<>>
    /\ calls[1].pc = "returned"
    /\ Len(calls[1].scores) = 2
    /\ Len(calls[1].result) = 1
    /\ calls[2].pc = "score"
    /\ calls[2].next = 2
    /\ Len(calls[2].scores) = 1
    /\ calls[2].query # calls[1].query
    /\ calls[2].candidates # calls[1].candidates
    /\ OutcomeOf(1) = InIsolation(1)

\* ------------------------------------------------------------------------
\* RAGService.answer_question
\* ------------------------------------------------------------------------
RagActive == rag # <<>>

RagDone == RagActive /\ rag.pc \in {"returned", "raised"}

\* retrieval has ended without an error and without a CRL
NothingRetrieved == RagActive /\ rag.retrieved /\ rag.relevant = <<>>

\* C17: when retrieval yields no CRL for a non-empty question, no chat
\* completion is requested and nothing is saved, whatever save_to_db and the
\* dry-run setting are, and the call returns the fallback answer with no
\* relevant CRLs and confidence 0.0.
C17_FallbackWithoutGeneration ==
    NothingRetrieved =>
        /\ strip(rag.question) # ""
        /\ rag.chat_calls = 0
        /\ rag.save_attempts = 0
        /\ rag.pc \in {"fallback", "returned"}
        /\ rag.pc = "returned" =>
               rag.result = [question |-> rag.question, answer |-> FallbackAnswer,
                             relevant_crls |-> <<>>, confidence |-> FZero,
                             model |-> QaModel]

\* the fallback returned with save_to_db on and dry-run off, the best
\* embeddings belonging to no CRL record
C17_Witness ==
    /\ NothingRetrieved
    /\ rag.pc = "returned"
    /\ rag.save_to_db
    /\ ~rag.ai_dry_run
    /\ Len(rag.store) = 3
    /\ rag.crls # {}
    /\ rag.result.answer = FallbackAnswer
    /\ rag.chat_calls = 0

\* ------------------------------------------------------------------------
\* RAGService._compute_confidence
\* ------------------------------------------------------------------------
InUnitInterval(x) == FCmp(x, FZero) >= 0 /\ FCmp(x, FOne) <= 0

ScoresInRange(relevant) ==
    \A j \in 1..Len(relevant) :
        FCmp(relevant[j][2], FNeg(FOne)) >= 0 /\ FCmp(relevant[j][2], FOne) <= 0

\* C18: for retrieved CRLs with scores in [-1, 1] _compute_confidence
\* returns a value in [0, 1], and 0.0 for an empty list; the confidence of
\* every result of answer_question is in [0, 1].
C18_ConfidenceInUnitInterval ==
    /\ (RagActive /\ rag.pc = "confidence_returned" /\ ScoresInRange(rag.relevant)) =>
           /\ InUnitInterval(rag.result)
           /\ rag.relevant = <<>> => rag.result = FZero
    /\ (RagActive /\ rag.pc = "returned") => InUnitInterval(rag.result.confidence)

\* three retrieved CRLs, the first with a score below 0: the confidence
\* mixes the best score and the average of the three
C18_Witness ==
    /\ RagActive
    /\ rag.pc = "confidence_returned"
    /\ Len(rag.relevant) = 3
    /\ FCmp(rag.relevant[1][2], FZero) < 0
    /\ FCmp(rag.relevant[3][2], FZero) > 0
    /\ FCmp(rag.result, FZero) > 0
    /\ FCmp(rag.result, normalized(rag.relevant[1][2])) > 0
    /\ FCmp(rag.result, FOne) < 0

\* ------------------------------------------------------------------------
\* Properties of the semantic-search endpoint
\* ------------------------------------------------------------------------
SearchActive == search # <<>>
SearchAnswered(r) == SearchActive /\ search.requests[r].pc = "answered"
RecaptchaEnabled(r) ==
    /\ search.requests[r].settings.declared
    /\ search.requests[r].settings.recaptcha_secret_key # ""
TokenVerifies(r) ==
    verify_recaptcha(search.requests[r].captcha_token, search.requests[r].settings,
                     search.requests[r].google).is_valid

\* C19: when reCAPTCHA is enabled and the verification of the token fails, no
\* query embedding is ever generated and no retrieval ever runs for the
\* request, and the request is answered with status 403 (detail "reCAPTCHA
\* validation failed: ..."), not with the 500 of the generic handler, whatever
\* another request does while the verification is awaited.
C19_ForbiddenBeforeEmbedding ==
    \A r \in RequestIds :
        (SearchActive /\ RecaptchaEnabled(r) /\ ~TokenVerifies(r)) =>
            /\ search.requests[r].embed_calls = 0
            /\ search.requests[r].retrieve_calls = 0
            /\ search.requests[r].pc \in {"recaptcha", "verify", "verifying", "answered"}
            /\ search.requests[r].pc = "answered" =>
                  /\ search.requests[r].response.status_code = 403
                  /\ search.requests[r].response.detail[1] = RecaptchaFailedPrefix
                  /\ search.requests[r].verify_calls = 1

\* two requests served together: request 1, whose token Google scores below
\* the minimum, is refused, and request 2 has been embedded, retrieved and
\* answered with results
C19_Witness ==
    /\ SearchAnswered(1)
    /\ RecaptchaEnabled(1)
    /\ search.requests[1].captcha_token = "token"
    /\ search.requests[1].google.kind = "json" /\ search.requests[1].google.success
    /\ search.requests[1].google.score < search.requests[1].settings.recaptcha_min_score
    /\ search.requests[1].verify_calls = 1
    /\ search.requests[1].response.status_code = 403
    /\ search.requests[1].query = "clinical efficacy"
    /\ search.requests[1].store # <<>>
    /\ SearchAnswered(2)
    /\ search.requests[2].response.status_code = 200
    /\ search.requests[2].embed_calls = 1
    /\ search.requests[2].retrieve_calls = 1


\* ------------------------------------------------------------------------
\* Properties of OpenAIClient.create_embedding
\* ------------------------------------------------------------------------
EmbeddingReturned == openai # <<>> /\ openai.pc = "returned"

\* the dimension of the vectors of an embedding model
ModelDimension(model) == IF model = "text-embedding-3-large" THEN 3072 ELSE 1536

AllZero(embedding) == \A j \in 1..Len(embedding) : embedding[j] = FZero

\* C20: in dry-run mode create_embedding makes no API call and returns an
\* all-zero vector whose length is the dimension of the model in effect (the
\* model argument if given, else the configured model): 3072 for
\* text-embedding-3-large, 1536 for text-embedding-3-small.
C20_DryRunDimensionOfModel ==
    (EmbeddingReturned /\ openai.dry_run) =>
        /\ openai.api_calls = 0
        /\ AllZero(openai.embedding)
        /\ Len(openai.embedding) =
               ModelDimension(model_in_effect(openai.model, openai.openai_embedding_model))

\* ------------------------------------------------------------------------
\* Properties of DataProcessorService
\* ------------------------------------------------------------------------
IngestReturned == ingest # <<>> /\ ingest.pc = "returned"

\* two records of a batch with the same application number and letter date
SameKey(r1, r2) ==
    /\ r1.application_number = r2.application_number
    /\ r1.letter_date = r2.letter_date

\* C21: the ids that one call of parse_all_crls gives to the records it
\* returns are pairwise distinct, whatever the batch: also for records with
\* the same application number and letter date, and for records that have
\* the same file name as well.
C21_IdsPairwiseDistinct ==
    ingest # <<>> =>
        \A a, b \in 1..Len(ingest.parsed_crls) :
            a # b => ingest.parsed_crls[a].id # ingest.parsed_crls[b].id

\* two records with the same application number, letter date and file name,
\* whose base id is stored already: the second one is told apart by a counter
C21_Witness ==
    /\ ingest # <<>>
    /\ ingest.pc = "detect"
    /\ Len(ingest.results) = 2
    /\ SameKey(ingest.results[1], ingest.results[2])
    /\ ingest.results[1].file_name = ingest.results[2].file_name
    /\ ingest.results[1].file_name # NoneValue
    /\ Len(ingest.parsed_crls) = 2
    /\ ingest.parsed_crls[1].id = "NDA1_20240115_c22fe4"
    /\ ingest.parsed_crls[2].id = "NDA1_20240115_c22fe4_1"

\* the records of this run that were stored already with the same text
unchanged_count ==
    Cardinality({j \in 1..Len(ingest.parsed_crls) :
                    /\ ingest.parsed_crls[j].id \in ingest.ids_before
                    /\ ingest.parsed_crls[j] \notin
                           {ingest.updated_crls[n] : n \in 1..Len(ingest.updated_crls)}})

\* C27: process_and_store run again on the same data and on the database
\* the run before it left, every store of the runs having worked, reports
\* new_crls = 0 and updated_crls = 0 and leaves the set of stored ids as it
\* was before the run.
C27_ReingestionIdempotent ==
    (IngestReturned /\ ingest.in_a_row >= 2 /\ ingest.all_stored) =>
        /\ ingest.stats[1].new_crls = 0
        /\ ingest.stats[1].updated_crls = 0
        /\ stored_ids_of(ingest.db) = ingest.ids_before

\* C28: failed is the number of records whose create or update failed: it is
\* 0 when no create and no update of the run failed, and new_crls +
\* updated_crls + failed + (records stored already, text unchanged) is the
\* number of parsed records.
C28_FailedCountsFailures ==
    IngestReturned =>
        /\ ingest.stats[1].failed = ingest.store_errors
        /\ ingest.stats[1].new_crls + ingest.stats[1].updated_crls
              + ingest.stats[1].failed + unchanged_count = Len(ingest.parsed_crls)

\* ------------------------------------------------------------------------
\* Properties of batch_summarize and batch_generate_embeddings
\* ------------------------------------------------------------------------
BatchReturned == batch # <<>> /\ batch.pc = "returned"

\* C22: batch_summarize and batch_generate_embeddings return one tuple per
\* input item, in input order: (id, None, error message) for an item whose
\* call raised, the later items being processed all the same, and
\* (id, value, None) for an item whose call returned.
C22_BatchOneTuplePerItem ==
    BatchReturned =>
        /\ Len(batch.results) = Len(batch.items)
        /\ Len(batch.rets) = Len(batch.items)
        /\ \A j \in 1..Len(batch.items) :
               /\ batch.results[j][1] = batch.items[j][1]
               /\ batch.rets[j].raised # "" =>
                      /\ batch.results[j][2] = NoneValue
                      /\ batch.results[j][3] = Some(batch.rets[j].raised)
               /\ batch.rets[j].raised = "" =>
                      /\ batch.results[j][2] = Some(batch.rets[j].value)
                      /\ batch.results[j][3] = NoneValue

\* a batch of three whose second item has an empty text and whose first item
\* failed in the API: the third is summarized all the same
C22_Witness ==
    /\ BatchReturned
    /\ batch.service = "batch_summarize"
    /\ ~batch.dry_run
    /\ Len(batch.items) = 3
    /\ batch.items[2][2] = ""
    /\ batch.results[1] = <<batch.items[1][1], NoneValue, Some(ErrOpenAI)>>
    /\ batch.results[2] = <<batch.items[2][1], NoneValue, Some(ErrEmptyCrlText)>>
    /\ batch.results[3][2] = Some("The letter cites manufacturing deficiencies.")
    /\ batch.results[3][3] = NoneValue

\* ------------------------------------------------------------------------
\* Properties of RAGService._retrieve_similar_crls and answer_question
\* ------------------------------------------------------------------------
\* retrieval has just ended without an error
JustRetrieved == RagActive /\ rag.retrieved /\ rag.pc \in {"generate", "fallback"}

\* the cosine ranking of the stored embeddings, best top_k first
TopRanking == find_top_k_similar(rag.query_embedding, rag.store, rag.top_k, "cosine")

HasRecord(entry) == entry[1] \in rag.crls

\* C23: _retrieve_similar_crls returns the cosine top_k ranking of the stored
\* summary embeddings without the ids that have no CRL record, in rank order:
\* at most top_k entries, scores non-increasing, every id one of the
\* embedding store, and no dropped id replaced by the next-best candidate.
C23_RetrievalIsFilteredTopK ==
    JustRetrieved =>
        \A top \in {TopRanking} :
            /\ top.raised = ""
            /\ Len(rag.relevant) <= rag.top_k
            /\ \A j \in 1..(Len(rag.relevant) - 1) :
                   FCmp(rag.relevant[j][2], rag.relevant[j + 1][2]) >= 0
            /\ \A j \in 1..Len(rag.relevant) :
                   /\ rag.relevant[j][1] \in rag.crls
                   /\ \E n \in 1..Len(rag.store) : rag.store[n][1] = rag.relevant[j][1]
            /\ rag.relevant = SelectSeq(top.value, HasRecord)

\* top_k is 1 and the best embedding has no CRL record: nothing is returned
\* although an embedding further down the ranking has one
C23_Witness ==
    /\ JustRetrieved
    /\ rag.top_k = 1
    /\ rag.relevant = <<>>
    /\ \E n \in 1..Len(rag.store) :
           /\ rag.store[n][1] \in rag.crls
           /\ Len(rag.store[n][2]) = Len(rag.query_embedding)
           /\ rag.store[n][1] # TopRanking.value[1][1]

\* one step of answer_question, from rag to rag'
OrderedStep ==
    /\ rag'.query_embedding # rag.query_embedding => rag.pc = "embed"
    /\ rag'.retrieved # rag.retrieved =>
           /\ rag.pc = "retrieve"
           /\ rag.query_embedding # <<>>
    /\ rag'.chat_calls # rag.chat_calls =>
           /\ rag.pc = "generate"
           /\ rag.retrieved
           /\ rag.chat_calls = 0
    /\ rag'.save_attempts # rag.save_attempts =>
           /\ rag.pc = "save"
           /\ rag.save_attempts = 0
           /\ rag.chat_calls = 1 /\ rag.answer # ""
           /\ rag.save_to_db /\ ~rag.ai_dry_run
           /\ rag'.pc = "returned"
           /\ rag'.result = rag.result
           /\ rag'.error = ""
    /\ rag'.saves # rag.saves =>
           /\ rag'.saves = 1
           /\ rag'.save_attempts # rag.save_attempts

\* C24: answer_question embeds the question, retrieves, generates and saves
\* in that order; a Q&A record is saved at most once per call and only after
\* an answer was generated, with save_to_db true and ai_dry_run false; an
\* error of the embedding, the retrieval or the generation ends the call
\* with nothing saved; an error of the save is swallowed and the call
\* returns the result it had built.
C24_SaveLastAndAtMostOnce ==
    /\ [][(rag # <<>> /\ rag' # <<>>) => OrderedStep]_vars
    /\ [](RagActive => /\ rag.saves <= rag.save_attempts
                       /\ rag.save_attempts <= 1
                       /\ rag.pc = "raised" =>
                              /\ rag.error # ""
                              /\ rag.result = NoneValue
                              /\ rag.save_attempts = 0)

\* a call returned its result although the save failed
C24_Witness ==
    /\ RagActive
    /\ rag.pc = "returned"
    /\ rag.save_to_db /\ ~rag.ai_dry_run
    /\ rag.chat_calls = 1
    /\ rag.save_attempts = 1
    /\ rag.saves = 0
    /\ rag.result # NoneValue
    /\ rag.result.answer = rag.answer
    /\ Len(rag.result.relevant_crls) = 2

NonIncreasing(relevant) ==
    \A j \in 1..(Len(relevant) - 1) : FCmp(relevant[j][2], relevant[j + 1][2]) >= 0

\* C25: with three or more retrieved CRLs, scores non-increasing,
\* _compute_confidence returns a value that is not lower than the confidence
\* it returns from the top score alone, (top_score + 1) / 2.
C25_BoostNotBelowTopScore ==
    (RagActive /\ rag.pc = "confidence_returned"
       /\ Len(rag.relevant) >= 3 /\ NonIncreasing(rag.relevant)) =>
        FCmp(rag.result, compute_confidence(SubSeq(rag.relevant, 1, 1))) >= 0

\* ------------------------------------------------------------------------
\* Order of equal scores in find_top_k_similar
\* ------------------------------------------------------------------------
\* the position in the candidate list of the candidate with this id
PositionOf(cand_id) ==
    CHOOSE j \in 1..Len(candidate_vecs) : candidate_vecs[j][1] = cand_id

\* C26: compatible candidates with equal scores are returned in the order of
\* the candidate list, under the descending metrics (cosine, dot) and the
\* ascending one (euclidean); when a tie straddles position k, the candidates
\* earlier in the list are the ones returned.
C26_TiesInCandidateOrder ==
    pc = "returned" =>
        /\ \A r1, r2 \in 1..Len(result) :
               (r1 < r2 /\ FCmp(result[r1][2], result[r2][2]) = 0) =>
                   PositionOf(result[r1][1]) < PositionOf(result[r2][1])
        /\ \A j \in Compatible : \A r \in 1..Len(result) :
               (candidate_vecs[j][1] \notin ResultIds
                  /\ FCmp(ScoreOf(j), result[r][2]) = 0) =>
                   PositionOf(result[r][1]) < j

\* three candidates with the same dot product, k = 2: the first two of the
\* list are returned, in list order
C26_Witness ==
    /\ pc = "returned"
    /\ similarity_fn = "dot"
    /\ k = 2
    /\ Cardinality(Compatible) = 3
    /\ \A j \in Compatible : FCmp(ScoreOf(j), ScoreOf(1)) = 0
    /\ FCmp(ScoreOf(1), FZero) # 0
    /\ Len(result) = 2
    /\ result[1][1] = candidate_vecs[1][1]
    /\ result[2][1] = candidate_vecs[2][1]

\* ------------------------------------------------------------------------
\* Properties of the embedding generation script
\* ------------------------------------------------------------------------
EmbGenFinished == embgen # <<>> /\ embgen.pc = "done"

\* the number of embeddings of the selected type that a table holds for a CRL
EmbeddingCount(table, crl_id) ==
    Cardinality(rows_of(table, crl_id, embgen.embedding_type))

\* the rows that calls of EmbeddingRepository.create have added to the table
\* since the run selected its CRLs
CreatedRows ==
    {n \in (Len(embgen.table_before) + 1)..Len(embgen.table) :
         \A t \in 1..Len(uuid4) : embgen.table[n].id # uuid4[t]}

\* C29: in regenerate mode the new embedding replaces the one there was:
\* after the run has embedded a CRL that had one embedding of the selected
\* type, the table holds exactly one embedding for that CRL and type, so
\* that retrieval never reads the same crl_id twice. No other writer has
\* added rows in the meantime.
C29_RegenerateReplaces ==
    (EmbGenFinished /\ embgen.mode = "regenerate" /\ CreatedRows = {}) =>
        \A n \in 1..Len(embgen.results) :
            (/\ embgen.results[n].status = "success"
             /\ EmbeddingCount(embgen.table_before, embgen.results[n].crl_id) = 1) =>
                EmbeddingCount(embgen.table, embgen.results[n].crl_id) = 1

BlankText(text) == text = "" \/ strip(text) = ""

\* the results that the run has recorded for the CRL of task t
ResultsOf(t) ==
    {n \in 1..Len(embgen.results) : embgen.results[n].crl_id = embgen.crls[t].crl_id}

\* the rows that the coroutine of task t has stored
RowsOf(t) == {n \in 1..Len(embgen.table) : embgen.table[n].id = uuid4[t]}

\* what the run has recorded for the CRL of task t
StatusConsistent(t) ==
    \A n \in ResultsOf(t) :
        LET res == embgen.results[n]
            crl == embgen.crls[t]
        IN  /\ res.status \in {"skipped", "success", "failed"}
            /\ res.api_calls <= embgen.max_retries
            /\ res.status = "skipped" <=> BlankText(crl.text)
            /\ res.status = "skipped" =>
                   /\ res.api_calls = 0
                   /\ RowsOf(t) = {}
            /\ res.status = "success" =>
                   /\ res.attempt = Some(res.api_calls)
                   /\ Cardinality(RowsOf(t)) = 1
                   /\ \A r \in RowsOf(t) :
                          /\ r > Len(embgen.table_before)
                          /\ embgen.table[r].crl_id = crl.crl_id
                          /\ embgen.table[r].embedding_type = crl.embedding_type
            /\ res.status = "failed" =>
                   /\ res.api_calls = embgen.max_retries
                   /\ RowsOf(t) = {}

EmbGenSafe ==
    /\ \A t \in 1..Len(embgen.tasks) :
           /\ embgen.tasks[t].api_calls <= embgen.max_retries
           /\ Cardinality(ResultsOf(t)) = IF embgen.tasks[t].pc = "done" THEN 1 ELSE 0
           /\ embgen.tasks[t].pc # "done" => RowsOf(t) = {}
           /\ StatusConsistent(t)
    /\ Len(embgen.table) =
           Len(embgen.table_before) + count_status(embgen.results, "success")
               + Cardinality(CreatedRows)
    /\ SubSeq(embgen.table, 1, Len(embgen.table_before)) = embgen.table_before
    /\ \A n \in ((Len(embgen.table_before) + 1)..Len(embgen.table)) \ CreatedRows :
           /\ embgen.table[n].embedding # <<>>
           /\ ~is_all_zeros(embgen.table[n].embedding)

\* C30: process_single_embedding makes at most max_retries attempts for a CRL
\* and always ends with one status: skipped, without an attempt, for a blank
\* text; success at the first attempt whose embedding is neither empty nor
\* all zeros and whose insert works, one row being stored; failed, no row
\* being stored, once max_retries attempts have failed. An empty or all-zero
\* embedding is never stored. This holds of every coroutine of the run,
\* whatever the order in which the event loop resumes them and whatever
\* rows other writers add to the table meanwhile.
C30_OneStatusPerCrl ==
    /\ []((embgen # <<>> /\ embgen.pc \in {"run", "done"}) => EmbGenSafe)
    /\ <>EmbGenFinished

\* a concurrent run of two CRLs: the second returned first, failed after
\* three all-zero embeddings, and the first was embedded afterwards at its
\* third and last attempt
C30_Witness ==
    /\ EmbGenFinished
    /\ ~embgen.sequential
    /\ embgen.max_retries = 3
    /\ ~embgen.dry_run
    /\ Len(embgen.results) = 2
    /\ embgen.results[1].crl_id = embgen.crls[2].crl_id
    /\ embgen.results[1].status = "failed"
    /\ embgen.results[1].detail = Some(ErrEmbeddingZeros)
    /\ embgen.results[1].api_calls = 3
    /\ embgen.results[2].crl_id = embgen.crls[1].crl_id
    /\ embgen.results[2].status = "success"
    /\ embgen.results[2].attempt = Some(3)
    /\ Len(embgen.table) = Len(embgen.table_before) + 1
    /\ embgen.table[Len(embgen.table)].id = uuid4[1]
    /\ embgen.stats[1].retried = 1

====
